---- MODULE Spec2Model ----
(***************************************************************************)
(* A model of the PDF construction library: the resource registry          *)
(* (embed / register), the document model (fonts, pages, conformance) and  *)
(* the document assembly performed by PdfDocument::save.                   *)
(*                                                                         *)
(* The specifications share the variables:                                 *)
(*   SpecReg  - embed resources into a lopdf document and register the     *)
(*              handles into page resource dictionaries;                   *)
(*   Spec     - build a document (embed, add fonts, add pages, set the     *)
(*              conformance) and save it;                                  *)
(*   SpecText - add fonts, write text and glyph ids into a layer, add the  *)
(*              page of the layer and save the document;                   *)
(*   SpecFont - parse a font and make its tables (glyph map, ToUnicode     *)
(*              map, W array) with ExternalFont::into_with_document;       *)
(*   SpecLayer - add fonts, then call the builder of one layer (setters,   *)
(*              use_xobject, use_text);                                    *)
(*   SpecId   - the threads of the process draw identifiers from the one   *)
(*              counter, one loop iteration per step (SpecIdFair: a thread *)
(*              inside the loop goes on);                                  *)
(*   SpecMeta - set_document_id, pages and conformance, then save.         *)
(***************************************************************************)
EXTENDS Integers, Sequences, FiniteSets, TLC

VARIABLES
    max_id,       \* inner_doc.max_id: the last object number handed out
    objects,      \* inner_doc.objects: object number -> lopdf::Object
    embedded,     \* the Embedded<T> handles returned by embed, in call order
    resources,    \* the page resource dictionaries register works on
    regLog,       \* the Registered<T> values returned by register, in call order
    panicked,     \* TRUE once register has hit panic!("expected a PDF Dictionary")
    fonts,        \* PdfDocument.fonts: the document-wide font table
    fontLog,      \* the results returned by add_builtin_font / add_external_font
    pages,        \* PdfDocument.pages
    conformance,  \* PdfDocument.metadata.conformance
    phase,        \* "building" until save has consumed the document, then "sealed"
    out,          \* what save built: the identifiers it allocated and the trailer
    document_id,  \* PdfDocument.document_id
    RAND_SEED,    \* utils.rs: the process-wide counter of the generator
    layerOps,     \* PdfLayer.operations of the layer under construction
    writeLog,     \* the write_text / write_codepoints calls made on the layer
    face,         \* the parsed font of the ExternalFont the engine works on
    engine,       \* the tables ExternalFont::into_with_document made of it
    xmp_document_id, \* PdfDocument.metadata.xmp_metadata.document_id
    idLog,        \* the strings random_character_string_32 has returned, in order
    idCalls       \* per thread: the call of random_character_string_32 it is in

vars == <<max_id, objects, embedded, resources, regLog, panicked,
          fonts, fontLog, pages, conformance, phase, out, document_id, RAND_SEED,
          layerOps, writeLog, face, engine, xmp_document_id, idLog, idCalls>>

\* the font the engine works on and its tables
faceVars == <<face, engine>>

\* the layer under construction
textVars == <<layerOps, writeLog>>

\* the identifiers of the document, the counter they are drawn from and the
\* calls of the generator
idVars == <<document_id, RAND_SEED, xmp_document_id, idLog, idCalls>>

(***************************************************************************)
(* Bounds of the model.                                                    *)
(***************************************************************************)
MaxEmbedded == 2
MaxRegs == 3
NumDicts == 2
MaxFontCalls == 2
MaxPages == 2

(***************************************************************************)
(* lopdf objects.  Every object is a record [type, v].                     *)
(***************************************************************************)
Name(s) == [type |-> "Name", v |-> s]
Integer(n) == [type |-> "Integer", v |-> n]
Real(x) == [type |-> "Real", v |-> x]
Str(s) == [type |-> "String", v |-> s]
Reference(id) == [type |-> "Reference", v |-> id]
Array(s) == [type |-> "Array", v |-> s]
Dictionary(d) == [type |-> "Dictionary", v |-> d]
Stream(d, c, compress) ==
    [type |-> "Stream", v |-> [dict |-> d, content |-> c, allows_compression |-> compress]]

\* lopdf::Dictionary::new()
EmptyDict == [k \in {} |-> 0]

\* lopdf::Dictionary::set: insert the key or overwrite its value
DictSet(d, k, o) == [x \in (DOMAIN d) \cup {k} |-> IF x = k THEN o ELSE d[x]]

\* lopdf::Dictionary::len
DictLen(d) == Cardinality(DOMAIN d)

\* lopdf::Dictionary::has
DictHas(d, k) == k \in DOMAIN d

\* LoDictionary::from_iter over a sequence of <<key, object>> pairs
RECURSIVE DictFromIter(_)
DictFromIter(kvs) ==
    IF kvs = <<>> THEN EmptyDict
    ELSE LET n == Len(kvs)
         IN DictSet(DictFromIter(SubSeq(kvs, 1, n - 1)), kvs[n][1], kvs[n][2])

\* lopdf::Document::new_object_id: max_id += 1; (max_id, 0)
new_object_id(doc) == [doc EXCEPT !.max_id = @ + 1]

\* lopdf::Document::add_object: new_object_id, then objects.insert(id, object)
add_object(doc, o) ==
    LET d1 == new_object_id(doc)
    IN [d1 EXCEPT !.objects =
           [i \in (DOMAIN d1.objects) \cup {d1.max_id} |->
               IF i = d1.max_id THEN o ELSE d1.objects[i]]]

\* doc.objects.insert(id, object)
objects_insert(doc, id, o) ==
    [doc EXCEPT !.objects =
        [i \in (DOMAIN doc.objects) \cup {id} |-> IF i = id THEN o ELSE doc.objects[i]]]

(***************************************************************************)
(* format!("{}", n): the decimal digits of n, most significant first.      *)
(***************************************************************************)
Digit == <<"0", "1", "2", "3", "4", "5", "6", "7", "8", "9">>

RECURSIVE Decimal(_)
Decimal(n) == IF n < 10 THEN Digit[n + 1] ELSE Decimal(n \div 10) \o Digit[(n % 10) + 1]

\* format!("R{}", name_index)
FormatR(name_index) == "R" \o Decimal(name_index)

(***************************************************************************)
(* utils.rs: the counter-based generator of identifiers.  A usize is the   *)
(* set of the positions of its one bits.                                   *)
(***************************************************************************)
\* #[cfg(target_pointer_width = "64")]: the width of usize in the build
target_pointer_width == 64

\* static RAND_SEED: AtomicUsize = AtomicUsize::new(2100)
RAND_SEED_START == 2100

\* the increment of RAND_SEED.fetch_add(21, Ordering::SeqCst)
RAND_SEED_STEP == 21

\* const MAX_CHARS: usize = 32
MAX_CHARS == 32

\* a small number as a usize
Word(n) == {i \in 0..30 : (n \div (2 ^ i)) % 2 = 1}

\* x ^ y
Xor(x, y) == (x \ y) \cup (y \ x)

\* x << n, the bits shifted out of the word are lost
Shl(x, n) == {i + n : i \in {j \in x : j + n < target_pointer_width}}

\* x >> n
Shr(x, n) == {i - n : i \in {j \in x : j >= n}}

\* x ^= x << n
XorShl(x, n) == Xor(x, Shl(x, n))

\* x ^= x >> n
XorShr(x, n) == Xor(x, Shr(x, n))

\* rand: the xorshift of the value RAND_SEED held before the fetch_add
rand(seed) ==
    IF target_pointer_width = 64
    THEN XorShl(XorShr(XorShl(Word(seed), 21), 35), 4)
    ELSE XorShl(XorShr(XorShl(Word(seed), 13), 17), 5)

\* the value of bit i of x
Bit(x, i) == IF i \in x THEN 1 ELSE 0

\* the bits 15k .. 15k+14 of x as a number: x is read as five digits of base 2^15
Limb(x, k) ==
    Bit(x, 15 * k) + 2 * Bit(x, 15 * k + 1) + 4 * Bit(x, 15 * k + 2)
    + 8 * Bit(x, 15 * k + 3) + 16 * Bit(x, 15 * k + 4) + 32 * Bit(x, 15 * k + 5)
    + 64 * Bit(x, 15 * k + 6) + 128 * Bit(x, 15 * k + 7) + 256 * Bit(x, 15 * k + 8)
    + 512 * Bit(x, 15 * k + 9) + 1024 * Bit(x, 15 * k + 10)
    + 2048 * Bit(x, 15 * k + 11) + 4096 * Bit(x, 15 * k + 12)
    + 8192 * Bit(x, 15 * k + 13) + 16384 * Bit(x, 15 * k + 14)

\* the most significant limb first
Limbs(x) == <<Limb(x, 4), Limb(x, 3), Limb(x, 2), Limb(x, 1), Limb(x, 0)>>

\* long division of a number in base 2^15 by 10000: quotient limbs and remainder
RECURSIVE LongDiv(_, _, _)
LongDiv(limbs, r, quot) ==
    IF limbs = <<>>
    THEN [quot |-> quot, rem |-> r]
    ELSE LongDiv(Tail(limbs), (r * 32768 + Head(limbs)) % 10000,
                 Append(quot, (r * 32768 + Head(limbs)) \div 10000))

\* the number in base 10000, the most significant group first; none for zero
RECURSIVE Groups(_)
GroupsOf(d) == Append(Groups(d.quot), d.rem)
Groups(limbs) ==
    IF limbs = <<0, 0, 0, 0, 0>> THEN <<>> ELSE GroupsOf(LongDiv(limbs, 0, <<>>))

\* u8_to_char: (b'A' + input) as char, for a decimal digit
u8_to_char(input) == <<"A", "B", "C", "D", "E", "F", "G", "H", "I", "J">>[input + 1]

\* the four decimal digits of a group, each mapped by u8_to_char
GroupChars(g) ==
    <<u8_to_char(g \div 1000), u8_to_char((g \div 100) % 10),
      u8_to_char((g \div 10) % 10), u8_to_char(g % 10)>>

\* the digits of the leading group: a formatted number has no leading zero
LeadChars(g) ==
    SubSeq(GroupChars(g),
           IF g >= 1000 THEN 1 ELSE IF g >= 100 THEN 2 ELSE IF g >= 10 THEN 3 ELSE 4, 4)

RECURSIVE TailChars(_)
TailChars(groups) ==
    IF groups = <<>> THEN <<>> ELSE GroupChars(Head(groups)) \o TailChars(Tail(groups))

\* format!("{}", n) for the number of these groups, every digit mapped by
\* u8_to_char, in the order of the formatted number
FormatChars(groups) ==
    IF groups = <<>>
    THEN <<u8_to_char(0)>>
    ELSE LeadChars(Head(groups)) \o TailChars(Tail(groups))

\* the characters one draw contributes
random_chars(seed) == FormatChars(Groups(Limbs(rand(seed))))

\* the characters of a String, joined
RECURSIVE StringOf(_)
StringOf(chars) == IF chars = <<>> THEN "" ELSE Head(chars) \o StringOf(Tail(chars))

\* the loop of random_character_string_32: chars holds the characters pushed
\* so far, seed the value of RAND_SEED; a draw that overshoots MAX_CHARS is
\* cut at MAX_CHARS (break 'outer)
RECURSIVE random_loop(_, _)
random_loop(chars, seed) ==
    IF Len(chars) >= MAX_CHARS
    THEN [string |-> StringOf(SubSeq(chars, 1, MAX_CHARS)), seed |-> seed,
          chars |-> SubSeq(chars, 1, MAX_CHARS)]
    ELSE random_loop(chars \o random_chars(seed), seed + RAND_SEED_STEP)

\* random_character_string_32, called when RAND_SEED holds seed: the string
\* and the value RAND_SEED holds afterwards
random_character_string_32(seed) == random_loop(<<>>, seed)

(***************************************************************************)
(* Embeddable resources: [kind, data].                                     *)
(***************************************************************************)
\* impl Into<&'static str> for BuiltinFont: the variant's PostScript name
BuiltinFontName ==
    [TimesRoman |-> "Times-Roman", TimesBold |-> "Times-Bold",
     TimesItalic |-> "Times-Italic", TimesBoldItalic |-> "Times-BoldItalic",
     Helvetica |-> "Helvetica", HelveticaBold |-> "Helvetica-Bold",
     HelveticaOblique |-> "Helvetica-Oblique",
     HelveticaBoldOblique |-> "Helvetica-BoldOblique",
     Courier |-> "Courier", CourierOblique |-> "Courier-Oblique",
     CourierBold |-> "Courier-Bold", CourierBoldOblique |-> "Courier-BoldOblique",
     Symbol |-> "Symbol", ZapfDingbats |-> "ZapfDingbats"]

\* enum BuiltinFont
BuiltinFont == DOMAIN BuiltinFontName

\* Embeddable::KEY
KEY(resource) == IF resource.kind = "Image" THEN "XObject" ELSE "Font"

\* impl Into<LoDictionary> for BuiltinFont
BuiltinFontDict(builtin_font) ==
    LET font_id == BuiltinFontName[builtin_font]
    IN
    DictFromIter(<< <<"Type", Name("Font")>>,
                    <<"Subtype", Name("Type1")>>,
                    <<"BaseFont", Name(font_id)>>,
                    <<"Encoding", Name("WinAnsiEncoding")>> >>)

\* ExternalFont::into_with_document: adds the ToUnicode stream, the font program
\* stream and the font descriptor to the document and returns the font dictionary
ExternalFont_into_with_document(font_bytes, doc) ==
    LET face_name == "Fo" \o Decimal(DictLen(doc.objects))
        d1 == add_object(doc, Stream(EmptyDict, <<"ToUnicode", face_name>>, TRUE))
        cid_to_unicode_map_stream_id == d1.max_id
        d2 == add_object(d1, Stream(DictFromIter(<< <<"Length1", Str(font_bytes)>> >>),
                                    <<"FontFile2", font_bytes>>, FALSE))
        font_stream_id == d2.max_id
        d3 == add_object(d2, Dictionary(DictFromIter(
                  << <<"Type", Name("FontDescriptor")>>,
                     <<"FontName", Name(face_name)>>,
                     <<"FontFile2", Reference(font_stream_id)>> >>)))
        font_descriptor_vec_id == d3.max_id
        desc_fonts == DictFromIter(
                  << <<"Type", Name("Font")>>,
                     <<"Subtype", Name("CIDFontType2")>>,
                     <<"BaseFont", Name(face_name)>>,
                     <<"FontDescriptor", Reference(font_descriptor_vec_id)>> >>)
    IN [doc |-> d3,
        dict |-> DictFromIter(
                  << <<"Type", Name("Font")>>,
                     <<"Subtype", Name("Type0")>>,
                     <<"BaseFont", Name(face_name)>>,
                     <<"Encoding", Name("Identity-H")>>,
                     <<"DescendantFonts", Array(<<Dictionary(desc_fonts)>>)>>,
                     <<"ToUnicode", Reference(cid_to_unicode_map_stream_id)>> >>)]

\* impl Embeddable for BuiltinFont: doc.add_object(dictionary)
BuiltinFont_embed(resource, doc) ==
    add_object(doc, Dictionary(BuiltinFontDict(resource.data)))

\* variant with a slip: the font dictionary itself is never added
ExternalFont_embed_no_dict(resource, doc) ==
    ExternalFont_into_with_document(resource.data, doc).doc

\* impl Embeddable for ExternalFont: into_with_document, then doc.add_object
ExternalFont_embed(resource, doc) ==
    LET r == ExternalFont_into_with_document(resource.data, doc)
    IN add_object(r.doc, Dictionary(r.dict))

\* impl Embeddable for Image: self.image.embed(doc); the image XObject is one stream
Image_embed(resource, doc) ==
    add_object(doc, Stream(DictFromIter(<< <<"Type", Name("XObject")>>,
                                           <<"Subtype", Name("Image")>> >>),
                           <<"Image", resource.data>>, TRUE))

\* Embeddable::embed, dispatched on the kind of the resource
Embeddable_embed(resource, doc) ==
    CASE resource.kind = "BuiltinFont" -> BuiltinFont_embed(resource, doc)
      [] resource.kind = "ExternalFont" -> ExternalFont_embed(resource, doc)
      [] OTHER -> Image_embed(resource, doc)

\* embed(doc, resource): the object id is the one resource.embed(doc) returned
embed(doc, resource) ==
    LET d1 == Embeddable_embed(resource, doc)
    IN [doc |-> d1, embedded |-> [object |-> resource, object_id |-> d1.max_id]]

(***************************************************************************)
(* Variants of register with a plausible slip, used to test the claims.    *)
(***************************************************************************)
\* names counted from 1 instead of from the length of the sub-dictionary
register_one_based(res, resource) ==
    LET object_id == resource.object_id
        key == KEY(resource.object)
    IN  IF DictHas(res, key) /\ res[key].type = "Dictionary"
        THEN LET dict == res[key].v
                 name_index == DictLen(dict) + 1
             IN [panic |-> FALSE,
                 resources |-> DictSet(res, key, Dictionary(
                                   DictSet(dict, FormatR(name_index), Reference(object_id)))),
                 registered |-> [embedded |-> resource, name_index |-> name_index]]
        ELSE IF ~DictHas(res, key)
        THEN [panic |-> FALSE,
              resources |-> DictSet(res, key, Dictionary(
                                DictSet(EmptyDict, FormatR(1), Reference(object_id)))),
              registered |-> [embedded |-> resource, name_index |-> 1]]
        ELSE [panic |-> TRUE,
              resources |-> res,
              registered |-> [embedded |-> resource, name_index |-> 0]]

\* the name index taken from one counter shared by all dictionaries
register_shared_counter(res, resource) ==
    LET object_id == resource.object_id
        key == KEY(resource.object)
        name_index == Len(regLog)
    IN  IF DictHas(res, key) /\ res[key].type = "Dictionary"
        THEN [panic |-> FALSE,
              resources |-> DictSet(res, key, Dictionary(
                                DictSet(res[key].v, FormatR(name_index), Reference(object_id)))),
              registered |-> [embedded |-> resource, name_index |-> name_index]]
        ELSE IF ~DictHas(res, key)
        THEN [panic |-> FALSE,
              resources |-> DictSet(res, key, Dictionary(
                                DictSet(EmptyDict, FormatR(name_index), Reference(object_id)))),
              registered |-> [embedded |-> resource, name_index |-> name_index]]
        ELSE [panic |-> TRUE,
              resources |-> res,
              registered |-> [embedded |-> resource, name_index |-> 0]]

\* a slot that is not a dictionary is silently replaced instead of rejected
register_overwrite_slot(res, resource) ==
    LET object_id == resource.object_id
        key == KEY(resource.object)
        dict == IF DictHas(res, key) /\ res[key].type = "Dictionary"
                THEN res[key].v ELSE EmptyDict
        name_index == DictLen(dict)
    IN [panic |-> FALSE,
        resources |-> DictSet(res, key, Dictionary(
                          DictSet(dict, FormatR(name_index), Reference(object_id)))),
        registered |-> [embedded |-> resource, name_index |-> name_index]]

register_last_slot(res, resource) ==
    LET object_id == resource.object_id
        key == KEY(resource.object)
    IN  IF DictHas(res, key) /\ res[key].type = "Dictionary"
        THEN LET dict == res[key].v
                 name_index == DictLen(dict) - 1
             IN [panic |-> FALSE,
                 resources |-> DictSet(res, key, Dictionary(
                                   DictSet(dict, FormatR(name_index), Reference(object_id)))),
                 registered |-> [embedded |-> resource, name_index |-> name_index]]
        ELSE IF ~DictHas(res, key)
        THEN [panic |-> FALSE,
              resources |-> DictSet(res, key, Dictionary(
                                DictSet(EmptyDict, FormatR(0), Reference(object_id)))),
              registered |-> [embedded |-> resource, name_index |-> 0]]
        ELSE [panic |-> TRUE, resources |-> res, registered |-> <<>>]

(***************************************************************************)
(* register(resources, resource).  The cast `name_index as u32` is exact:  *)
(* a dictionary holds far fewer than 2^32 entries.                         *)
(***************************************************************************)
register(res, resource) ==
    LET object_id == resource.object_id
        key == KEY(resource.object)
    IN  IF DictHas(res, key) /\ res[key].type = "Dictionary"
        THEN LET dict == res[key].v
                 name_index == DictLen(dict)
                 name == FormatR(name_index)
                 dict1 == DictSet(dict, name, Reference(object_id))
             IN [panic |-> FALSE,
                 resources |-> DictSet(res, key, Dictionary(dict1)),
                 registered |-> [embedded |-> resource, name_index |-> name_index]]
        ELSE IF ~DictHas(res, key)
        THEN LET dict == EmptyDict
                 name_index == DictLen(dict)
                 name == FormatR(name_index)
                 dict1 == DictSet(dict, name, Reference(object_id))
             IN [panic |-> FALSE,
                 resources |-> DictSet(res, key, Dictionary(dict1)),
                 registered |-> [embedded |-> resource, name_index |-> name_index]]
        ELSE [panic |-> TRUE,
              resources |-> res,
              registered |-> [embedded |-> resource, name_index |-> 0]]

(***************************************************************************)
(* Inputs.                                                                 *)
(***************************************************************************)
\* the resources callers embed
EmbedInputs ==
    {[kind |-> "BuiltinFont", data |-> "Helvetica"],
     [kind |-> "ExternalFont", data |-> "ttfA"],
     [kind |-> "Image", data |-> "bmp"]}

\* the resources a caller embeds while it also builds a document
DocEmbedInputs ==
    {[kind |-> "ExternalFont", data |-> "ttfA"],
     [kind |-> "Image", data |-> "bmp"]}

DictIds == 1..NumDicts

\* a page resource dictionary as a caller can hand it to register: empty, or with
\* a category slot that holds something else than a dictionary
MalformedDict == DictSet(EmptyDict, "XObject", Integer(0))

InitialDicts == {EmptyDict, MalformedDict}

NoOut == [saved |-> FALSE]

\* no font has been handed to the engine; the engine has not run
NoFace == <<>>
NoEngine == [done |-> FALSE]

\* the threads of the process that make and save documents
Threads == {1, 2}

\* a thread that is not inside random_character_string_32
NoCall == [active |-> FALSE]

\* the document id the XMP metadata holds before set_document_id is called
XmpDocumentIdStart == "xmp"

\* an entry of idLog: the String a call returned (its characters, and the
\* characters joined), what it was drawn for ("document_id" in
\* PdfDocument::new, "instance_id" in save) and for which document of the process
IdEntry(kind, doc, chars) ==
    [kind |-> kind, doc |-> doc, string |-> StringOf(chars), chars |-> chars]

(***************************************************************************)
(* Actions of the registry.                                                *)
(***************************************************************************)
Embed(resource) ==
    /\ phase = "building"
    /\ ~panicked
    /\ Len(embedded) < MaxEmbedded
    /\ LET r == embed([max_id |-> max_id, objects |-> objects], resource)
       IN /\ max_id' = r.doc.max_id
          /\ objects' = r.doc.objects
          /\ embedded' = Append(embedded, r.embedded)
    /\ UNCHANGED <<resources, regLog, panicked, fonts, fontLog, pages, conformance, phase, out>>
    /\ UNCHANGED <<idVars, textVars, faceVars>>

Register(d, i) ==
    /\ ~panicked
    /\ i \in 1..Len(embedded)
    /\ Len(regLog) < MaxRegs
    /\ LET r == register(resources[d], embedded[i])
       IN IF r.panic
          THEN /\ panicked' = TRUE
               /\ UNCHANGED <<resources, regLog>>
          ELSE /\ resources' = [resources EXCEPT ![d] = r.resources]
               /\ regLog' = Append(regLog, [dict |-> d, registered |-> r.registered])
               /\ UNCHANGED panicked
    /\ UNCHANGED <<max_id, objects, embedded, fonts, fontLog, pages, conformance, phase, out>>
    /\ UNCHANGED <<idVars, textVars, faceVars>>

InitDoc ==
    /\ max_id = 0
    /\ objects = EmptyDict
    /\ embedded = <<>>
    /\ regLog = <<>>
    /\ panicked = FALSE
    /\ fonts = <<>>
    /\ fontLog = <<>>
    /\ pages = <<>>
    /\ conformance = [requires_icc_profile |-> TRUE, requires_xmp_metadata |-> TRUE]
    /\ phase = "building"
    /\ out = NoOut
    \* PdfDocument::new: document_id: random_character_string_32()
    /\ document_id = random_character_string_32(RAND_SEED_START).string
    /\ RAND_SEED = random_character_string_32(RAND_SEED_START).seed
    /\ idLog = <<IdEntry("document_id", 1,
                         random_character_string_32(RAND_SEED_START).chars)>>
    /\ idCalls = [t \in Threads |-> NoCall]
    /\ xmp_document_id = XmpDocumentIdStart
    \* PdfLayer::new: operations: Vec::new()
    /\ layerOps = <<>>
    /\ writeLog = <<>>
    /\ engine = NoEngine

InitReg ==
    /\ InitDoc
    /\ resources \in [DictIds -> InitialDicts]
    /\ face = NoFace

NextReg ==
    \/ \E resource \in EmbedInputs : Embed(resource)
    \/ \E d \in DictIds, i \in 1..MaxEmbedded : Register(d, i)

SpecReg == InitReg /\ [][NextReg]_vars

(***************************************************************************)
(* The font table (FontList): the entries [name, inner_obj, data] in the   *)
(* order they were added, at most one per logical name.                    *)
(***************************************************************************)
\* FontList::get_font: the entry under the name, as an Option (<<>> is None)
FontList_get_font(table, name) ==
    LET hits == {i \in 1..Len(table) : table[i].name = name}
    IN IF hits = {} THEN <<>> ELSE <<table[CHOOSE i \in hits : TRUE]>>

\* FontList::add_font
FontList_add_font(table, font_ref, direct_ref) ==
    Append(table, [name |-> font_ref, inner_obj |-> direct_ref.inner_obj,
                   data |-> direct_ref.data])

\* FontList::len
FontList_len(table) == Len(table)

\* FontList::into_with_document: every font's dictionary goes into the object graph
\* under the identifier reserved for it, and the returned dictionary maps each
\* logical name to that identifier
RECURSIVE FontList_into_with_document(_, _)
FontList_into_with_document(table, doc) ==
    IF table = <<>> THEN [doc |-> doc, dict |-> EmptyDict]
    ELSE LET n == Len(table)
             before == FontList_into_with_document(SubSeq(table, 1, n - 1), doc)
             e == table[n]
             collected == IF e.data.kind = "ExternalFont"
                          THEN ExternalFont_into_with_document(e.data.data, before.doc)
                          ELSE [doc |-> before.doc, dict |-> BuiltinFontDict(e.data.data)]
         IN [doc |-> objects_insert(collected.doc, e.inner_obj, Dictionary(collected.dict)),
             dict |-> DictSet(before.dict, e.name, Reference(e.inner_obj))]

\* font_stream.read_to_end(&mut buf) succeeds
Readable(font_stream) == font_stream # "unreadable"

\* the font parser accepts the bytes (FontCollection::from_bytes, font_at)
Parseable(font_bytes) == font_bytes # "corrupt"

\* ExternalFont::new(font_stream, index): fails on bytes the parser rejects; the
\* face name is generated from the index
ExternalFont_new(font_stream, index) ==
    IF Readable(font_stream) /\ Parseable(font_stream)
    THEN [ok |-> TRUE, face_name |-> "F" \o Decimal(index),
          font |-> [kind |-> "ExternalFont", data |-> font_stream]]
    ELSE [ok |-> FALSE, face_name |-> "", font |-> [kind |-> "ExternalFont", data |-> font_stream]]

(***************************************************************************)
(* Variants of the add-font operations with a plausible slip.              *)
(***************************************************************************)
\* add_builtin_font without the lookup of the logical name
add_builtin_font_no_lookup(table, doc, builtin_font) ==
    LET d1 == new_object_id(doc)
        font_ref == BuiltinFontName[builtin_font]
    IN [doc |-> d1,
        fonts |-> FontList_add_font(table, font_ref,
                      [inner_obj |-> d1.max_id,
                       data |-> [kind |-> "BuiltinFont", data |-> builtin_font]]),
        ret |-> [ok |-> TRUE, name |-> font_ref]]

\* add_builtin_font that takes the number of stored objects plus one as identifier
add_builtin_font_len_id(table, doc, builtin_font) ==
    LET font_ref == BuiltinFontName[builtin_font]
    IN
    IF FontList_get_font(table, font_ref) # <<>>
    THEN [doc |-> doc, fonts |-> table, ret |-> [ok |-> TRUE, name |-> font_ref]]
    ELSE [doc |-> doc,
          fonts |-> FontList_add_font(table, font_ref,
                        [inner_obj |-> DictLen(doc.objects) + 1,
                         data |-> [kind |-> "BuiltinFont", data |-> builtin_font]]),
          ret |-> [ok |-> TRUE, name |-> font_ref]]

(***************************************************************************)
(* PdfDocument::add_builtin_font, add_external_font                        *)
(***************************************************************************)
add_builtin_font(table, doc, builtin_font) ==
    LET builtin_font_name == BuiltinFontName[builtin_font]
        font_ref == builtin_font_name
        possible_ref == FontList_get_font(table, font_ref)
    IN IF possible_ref # <<>>
       THEN [doc |-> doc, fonts |-> table, ret |-> [ok |-> TRUE, name |-> font_ref]]
       ELSE LET d1 == new_object_id(doc)
                direct_ref == [inner_obj |-> d1.max_id,
                               data |-> [kind |-> "BuiltinFont", data |-> builtin_font]]
            IN [doc |-> d1,
                fonts |-> FontList_add_font(table, font_ref, direct_ref),
                ret |-> [ok |-> TRUE, name |-> font_ref]]

\* add_external_font that reserves the object identifier before it parses the font
add_external_font_reserve_first(table, doc, font_stream) ==
    LET d1 == new_object_id(doc)
        external_font == ExternalFont_new(font_stream, FontList_len(table))
        font_ref == external_font.face_name
    IN IF ~external_font.ok
       THEN [doc |-> d1, fonts |-> table, ret |-> [ok |-> FALSE, name |-> ""]]
       ELSE IF FontList_get_font(table, font_ref) # <<>>
       THEN [doc |-> doc, fonts |-> table, ret |-> [ok |-> TRUE, name |-> font_ref]]
       ELSE [doc |-> d1,
             fonts |-> FontList_add_font(table, font_ref,
                           [inner_obj |-> d1.max_id, data |-> external_font.font]),
             ret |-> [ok |-> TRUE, name |-> font_ref]]

\* add_external_font that keeps a font the parser rejected
add_external_font_unverified(table, doc, font_stream) ==
    LET d1 == new_object_id(doc)
        font_ref == "F" \o Decimal(FontList_len(table))
    IN IF ~Readable(font_stream)
       THEN [doc |-> doc, fonts |-> table, ret |-> [ok |-> FALSE, name |-> ""]]
       ELSE IF FontList_get_font(table, font_ref) # <<>>
       THEN [doc |-> doc, fonts |-> table, ret |-> [ok |-> TRUE, name |-> font_ref]]
       ELSE [doc |-> d1,
             fonts |-> FontList_add_font(table, font_ref,
                           [inner_obj |-> d1.max_id,
                            data |-> [kind |-> "ExternalFont", data |-> font_stream]]),
             ret |-> [ok |-> TRUE, name |-> font_ref]]

add_external_font(table, doc, font_stream) ==
    LET last_font_index == FontList_len(table)
        external_font == ExternalFont_new(font_stream, last_font_index)
        font_ref == external_font.face_name
        possible_ref == FontList_get_font(table, font_ref)
    IN IF ~external_font.ok
       THEN [doc |-> doc, fonts |-> table, ret |-> [ok |-> FALSE, name |-> ""]]
       ELSE IF possible_ref # <<>>
       THEN [doc |-> doc, fonts |-> table, ret |-> [ok |-> TRUE, name |-> font_ref]]
       ELSE LET d1 == new_object_id(doc)
                direct_ref == [inner_obj |-> d1.max_id, data |-> external_font.font]
            IN [doc |-> d1,
                fonts |-> FontList_add_font(table, font_ref, direct_ref),
                ret |-> [ok |-> TRUE, name |-> font_ref]]

(***************************************************************************)
(* Pages and layers.                                                       *)
(***************************************************************************)
\* Mm -> Pt, 1 mm = 72 / 25.4 pt = 360 / 127 pt; a Pt value is kept in 1/127 pt
MmToPt(mm) == mm * 360

\* lopdf::content::Operation::new
Operation(operator, operands) == [operator |-> operator, operands |-> operands]

\* PdfLayer::new, followed by the builder calls that filled its operations
PdfLayer(name, operations) == [name |-> name, operations |-> operations]

\* PdfPage::new(width, height), followed by add_layer for each layer
PdfPage(width, height, layers) ==
    [width |-> MmToPt(width), height |-> MmToPt(height), layers |-> layers,
     resources |-> [patterns |-> <<>>, layers |-> <<>>]]

TextOps == <<Operation("BT", <<>>), Operation("ET", <<>>)>>

\* the pages callers add: no layer, one layer, two layers of one name, two layers
\* of different names
PageInputs ==
    {PdfPage(210, 297, <<>>),
     PdfPage(297, 210, <<PdfLayer("Layer 1", TextOps)>>),
     PdfPage(500, 300, <<PdfLayer("Layer 1", <<>>), PdfLayer("Layer 1", TextOps)>>)}

\* the builtin fonts and font streams callers add
BuiltinInputs == {"Helvetica"}
FontStreams == {"ttfA", "corrupt", "unreadable"}

ConformanceInputs ==
    {[requires_icc_profile |-> FALSE, requires_xmp_metadata |-> FALSE],
     [requires_icc_profile |-> TRUE, requires_xmp_metadata |-> TRUE]}

(***************************************************************************)
(* Page resources and layer streams.                                       *)
(***************************************************************************)
\* Option<T>: None is <<>>, Some(x) is <<x>>
None == <<>>
Some(x) == <<x>>

\* OCGList::add_ocg: the new reference is named after its index in the list
OCGList_add_ocg(ocg_dict, obj) ==
    LET cur_ref == [name |-> "MC" \o Decimal(Len(ocg_dict))]
    IN [list |-> Append(ocg_dict, [name |-> cur_ref.name, obj |-> obj]), ref |-> cur_ref]

\* impl Into<lopdf::Dictionary> for OCGList / PatternList: name -> object
NamedListIntoDict(list) ==
    DictFromIter([i \in 1..Len(list) |-> <<list[i].name, list[i].obj>>])

\* the loop of into_with_layers: ocg_references.push(ocg_dict.add_ocg(l))
RECURSIVE AddOcgs(_, _)
AddOcgs(ocg_dict, layers) ==
    IF layers = <<>> THEN [list |-> ocg_dict, refs |-> <<>>]
    ELSE LET n == Len(layers)
             before == AddOcgs(ocg_dict, SubSeq(layers, 1, n - 1))
             added == OCGList_add_ocg(before.list, layers[n])
         IN [list |-> added.list, refs |-> Append(before.refs, added.ref)]

\* PdfResources::into_with_layers
PdfResources_into_with_layers(res, layers) ==
    LET patterns_dict == NamedListIntoDict(res.patterns)
        added == AddOcgs(res.layers, layers)
        cur_ocg_dict_obj == NamedListIntoDict(added.list)
        dict1 == IF layers # <<>> /\ DictLen(cur_ocg_dict_obj) > 0
                 THEN DictSet(EmptyDict, "Properties", Dictionary(cur_ocg_dict_obj))
                 ELSE EmptyDict
        dict2 == IF DictLen(patterns_dict) > 0
                 THEN DictSet(dict1, "Pattern", Dictionary(patterns_dict))
                 ELSE dict1
    IN [dict |-> dict2, ocg_references |-> IF layers # <<>> THEN added.refs ELSE <<>>]

(***************************************************************************)
(* Text written into a layer: PdfLayer::write_text, write_codepoints.      *)
(* A text is the sequence of its chars, a char its Unicode code point.     *)
(***************************************************************************)
\* lopdf::Object::String(bytes, StringFormat::Hexadecimal)
StringHexadecimal(bytes) == [type |-> "String", v |-> bytes, format |-> "Hexadecimal"]

HexDigit == <<"0", "1", "2", "3", "4", "5", "6", "7", "8", "9",
              "A", "B", "C", "D", "E", "F">>

\* a hexadecimal string as the writer puts it out: <, two digits a byte, >
RECURSIVE HexBytes(_)
HexBytes(bytes) ==
    IF bytes = <<>> THEN ""
    ELSE HexDigit[(Head(bytes) \div 16) + 1] \o HexDigit[(Head(bytes) % 16) + 1]
         \o HexBytes(Tail(bytes))

HexEncode(bytes) == "<" \o HexBytes(bytes) \o ">"

\* str::encode_utf16 of one char: a char above U+FFFF is a surrogate pair
encode_utf16(ch) ==
    IF ch < 65536 THEN <<ch>>
    ELSE <<55296 + ((ch - 65536) \div 1024), 56320 + ((ch - 65536) % 1024)>>

\* the codes 0x80 .. 0x9F of WinAnsiEncoding, by the UTF-16 unit they stand for
WinAnsiSpecials ==
    (8364 :> 128) @@ (8218 :> 130) @@ (402 :> 131) @@ (8222 :> 132) @@ (8230 :> 133)
    @@ (8224 :> 134) @@ (8225 :> 135) @@ (710 :> 136) @@ (8240 :> 137) @@ (352 :> 138)
    @@ (8249 :> 139) @@ (338 :> 140) @@ (381 :> 142) @@ (8216 :> 145) @@ (8217 :> 146)
    @@ (8220 :> 147) @@ (8221 :> 148) @@ (8226 :> 149) @@ (8211 :> 150) @@ (8212 :> 151)
    @@ (732 :> 152) @@ (8482 :> 153) @@ (353 :> 154) @@ (8250 :> 155) @@ (339 :> 156)
    @@ (382 :> 158) @@ (376 :> 159)

\* encoding.iter().position(|&code| code == Some(ch)) on the WinAnsiEncoding
\* table: the code of a UTF-16 unit, None when the table does not hold it
WinAnsiPosition(unit) ==
    IF unit \in 32..126 \/ unit \in 161..255 THEN Some(unit)
    ELSE IF unit \in DOMAIN WinAnsiSpecials THEN Some(WinAnsiSpecials[unit])
    ELSE None

\* lopdf string_to_bytes with a unit outside the table written as a question mark
RECURSIVE string_to_bytes_replacing(_)
string_to_bytes_replacing(units) ==
    IF units = <<>> THEN <<>>
    ELSE (IF WinAnsiPosition(Head(units)) = None THEN <<63>>
          ELSE WinAnsiPosition(Head(units)))
         \o string_to_bytes_replacing(Tail(units))

\* lopdf string_to_bytes: text.encode_utf16().filter_map(position)
RECURSIVE string_to_bytes(_)
string_to_bytes(units) ==
    IF units = <<>> THEN <<>>
    ELSE WinAnsiPosition(Head(units)) \o string_to_bytes(Tail(units))

\* the UTF-16 units of a text
RECURSIVE text_encode_utf16(_)
text_encode_utf16(text) ==
    IF text = <<>> THEN <<>>
    ELSE encode_utf16(Head(text)) \o text_encode_utf16(Tail(text))

\* lopdf::Document::encode_text(Some("WinAnsiEncoding"), &text)
encode_text(text) == string_to_bytes(text_encode_utf16(text))

\* the parsed font of a font program: its unitsPerEm, the glyph id of every
\* code point it maps and the horizontal advance of its glyphs
FontCollection_font(font_bytes) ==
    [units_per_em |-> 2048,
     descent |-> 0 - 423,
     cmap |-> (65 :> 258) @@ (20013 :> 3) @@ (128512 :> 770),
     advance_width |-> (0 :> 1024) @@ (3 :> 2048) @@ (258 :> 1366) @@ (770 :> 2048),
     extents |-> (0 :> None) @@ (3 :> Some([min_y |-> 0 - 200, max_y |-> 1700]))
                 @@ (258 :> Some([min_y |-> 0, max_y |-> 1466]))
                 @@ (770 :> Some([min_y |-> 0 - 100, max_y |-> 1500]))]

\* font.glyph(Cp(ch as u32)).id().0: a code point without a glyph has glyph 0
glyph_id(font, unicode) == IF unicode \in DOMAIN font.cmap THEN font.cmap[unicode] ELSE 0

\* list_gid: glyph.id().0 as u16 for every char of the text
list_gid(font, text) == [i \in 1..Len(text) |-> glyph_id(font, text[i]) % 65536]

\* the low byte before the high byte
RECURSIVE gid_bytes_low_first(_)
gid_bytes_low_first(gids) ==
    IF gids = <<>> THEN <<>>
    ELSE <<Head(gids) % 256, (Head(gids) \div 256) % 256>>
         \o gid_bytes_low_first(Tail(gids))

\* list_gid.iter().flat_map(|x| vec![(x >> 8) as u8, (x & 255) as u8])
RECURSIVE gid_bytes(_)
gid_bytes(gids) ==
    IF gids = <<>> THEN <<>>
    ELSE <<(Head(gids) \div 256) % 256, Head(gids) % 256>> \o gid_bytes(Tail(gids))

\* codepoints.flat_map(|x| x.to_be_bytes())
RECURSIVE to_be_bytes(_)
to_be_bytes(codepoints) ==
    IF codepoints = <<>> THEN <<>>
    ELSE <<Head(codepoints) \div 256, Head(codepoints) % 256>>
         \o to_be_bytes(Tail(codepoints))

\* PdfLayer::write_codepoints
write_codepoints(operations, codepoints) ==
    Append(operations, Operation("Tj", <<StringHexadecimal(to_be_bytes(codepoints))>>))

\* the bytes write_text makes of the text for the data of a font of the table
write_text_bytes(text, data) ==
    IF data.kind = "ExternalFont"
    THEN gid_bytes(list_gid(FontCollection_font(data.data), text))
    ELSE encode_text(text)

\* PdfLayer::write_text; doc.fonts.get_font(font).unwrap() panics on a font that
\* is not in the table of the document, FontCollection::from_bytes(..).unwrap()
\* and collection.font_at(0).unwrap() panic on bytes the parser rejects
write_text(operations, text, table, font) ==
    IF FontList_get_font(table, font) = None
    THEN [panic |-> TRUE, operations |-> operations]
    ELSE IF /\ FontList_get_font(table, font)[1].data.kind = "ExternalFont"
            /\ ~Parseable(FontList_get_font(table, font)[1].data.data)
    THEN [panic |-> TRUE, operations |-> operations]
    ELSE [panic |-> FALSE,
          operations |-> Append(operations,
              Operation("Tj", <<StringHexadecimal(
                  write_text_bytes(text, FontList_get_font(table, font)[1].data))>>))]

(***************************************************************************)
(* The layer builder (pdf_layer.rs): every call pushes onto operations.    *)
(* An f64 argument is a whole number here; an Option is None or Some(x).   *)
(***************************************************************************)
\* the call replaces the last operation instead of pushing one
internal_add_operation_replace_last(operations, op) ==
    IF operations = <<>> THEN <<op>>
    ELSE Append(SubSeq(operations, 1, Len(operations) - 1), op)

\* PdfLayer::internal_add_operation: self.operations.push(op.into())
internal_add_operation(operations, op) == Append(operations, op)

\* impl Into<Operation> for CurTransMat: the operator cm with the matrix of the
\* variant; the matrix is kept as the variant and its arguments
CurTransMat_into_op(ctm) == Operation("cm", <<[type |-> "Matrix", v |-> ctm]>>)
Translate(x, y) == <<"Translate", MmToPt(x), MmToPt(y)>>
Rotate(rot) == <<"Rotate", rot>>
Scale(x, y) == <<"Scale", x, y>>

\* impl Into<Operation> for TextMatrix: the operator Tm with the matrix
TextMatrix_into_op(tm) == Operation("Tm", <<[type |-> "Matrix", v |-> tm]>>)

\* impl Into<Operation> for PdfColor: rg for a fill colour, RG for an outline
\* colour, with the three components of the colour
PdfColor_into_op(kind, color) ==
    Operation(IF kind = "FillColor" THEN "rg" ELSE "RG",
              <<Real(color[1]), Real(color[2]), Real(color[3])>>)

\* impl Into<Operation> for LineJoinStyle, LineCapStyle, LineDashPattern
LineJoinStyle_into_op(line_join) == Operation("j", <<Integer(line_join)>>)
LineCapStyle_into_op(line_cap) == Operation("J", <<Integer(line_cap)>>)
LineDashPattern_into_op(dash_pattern) ==
    Operation("d", <<Array([i \in 1..Len(dash_pattern.dashes) |->
                               Integer(dash_pattern.dashes[i])]),
                     Integer(dash_pattern.offset)>>)

\* impl Into<i64> for TextRenderingMode
TextRenderingMode_into_i64 ==
    [Fill |-> 0, Stroke |-> 1, FillStroke |-> 2, Invisible |-> 3, FillClip |-> 4,
     StrokeClip |-> 5, FillStrokeClip |-> 6, Clip |-> 7]

begin_text_section(operations) ==
    internal_add_operation(operations, Operation("BT", <<>>))
end_text_section(operations) ==
    internal_add_operation(operations, Operation("ET", <<>>))
set_fill_color(operations, fill_color) ==
    internal_add_operation(operations, PdfColor_into_op("FillColor", fill_color))
set_font(operations, font, font_size) ==
    internal_add_operation(operations, Operation("Tf", <<Name(font), Real(font_size)>>))
set_outline_color(operations, color) ==
    internal_add_operation(operations, PdfColor_into_op("OutlineColor", color))
set_graphics_state(operations, graphics_state) ==
    internal_add_operation(operations, Operation("gs", <<Name(graphics_state)>>))
set_outline_thickness(operations, outline_thickness) ==
    internal_add_operation(operations, Operation("w", <<Real(outline_thickness)>>))
set_line_join_style(operations, line_join) ==
    internal_add_operation(operations, LineJoinStyle_into_op(line_join))
set_line_cap_style(operations, line_cap) ==
    internal_add_operation(operations, LineCapStyle_into_op(line_cap))
set_line_dash_pattern(operations, dash_pattern) ==
    internal_add_operation(operations, LineDashPattern_into_op(dash_pattern))
set_ctm(operations, ctm) ==
    internal_add_operation(operations, CurTransMat_into_op(ctm))
set_text_matrix(operations, tm) ==
    internal_add_operation(operations, TextMatrix_into_op(tm))
set_text_cursor(operations, x, y) ==
    internal_add_operation(operations,
        Operation("Td", <<Real(MmToPt(x)), Real(MmToPt(y))>>))
set_line_height(operations, height) ==
    internal_add_operation(operations, Operation("TL", <<Real(height)>>))
set_character_spacing(operations, spacing) ==
    internal_add_operation(operations, Operation("Tc", <<Real(spacing)>>))
set_word_spacing(operations, spacing) ==
    internal_add_operation(operations, Operation("Tw", <<Real(spacing)>>))
set_text_rendering_mode(operations, mode) ==
    internal_add_operation(operations,
        Operation("Tr", <<Integer(TextRenderingMode_into_i64[mode])>>))
save_graphics_state(operations) ==
    internal_add_operation(operations, Operation("q", <<>>))
restore_graphics_state(operations) ==
    internal_add_operation(operations, Operation("Q", <<>>))
internal_invoke_xobject(operations, name) ==
    internal_add_operation(operations, Operation("Do", <<Name(name)>>))

\* if let Some(x) = option { local = x }, from the start value 0
unwrap_or_zero(option) == IF option = None THEN 0 ELSE option[1]

\* the three optional pushes of use_xobject, in the order of the code
use_xobject_translate(operations, t_x, t_y) ==
    IF t_x # 0 \/ t_y # 0 THEN set_ctm(operations, Translate(t_x, t_y)) ELSE operations
use_xobject_rotate(operations, rotate_cw) ==
    IF rotate_cw # None THEN set_ctm(operations, Rotate(rotate_cw[1])) ELSE operations
use_xobject_scale(operations, s_x, s_y) ==
    IF s_x # 0 \/ s_y # 0 THEN set_ctm(operations, Scale(s_x, s_y)) ELSE operations

\* use_xobject with the scale pushed before the rotation
use_xobject_scale_first(operations, xobj, translate_x, translate_y, rotate_cw, scale_x, scale_y) ==
    restore_graphics_state(internal_invoke_xobject(
        use_xobject_rotate(
            use_xobject_scale(
                use_xobject_translate(save_graphics_state(operations),
                    unwrap_or_zero(translate_x), unwrap_or_zero(translate_y)),
                unwrap_or_zero(scale_x), unwrap_or_zero(scale_y)),
            rotate_cw),
        xobj))

\* use_xobject with an absent scale factor taken as 1
use_xobject_unit_scale(operations, xobj, translate_x, translate_y, rotate_cw, scale_x, scale_y) ==
    restore_graphics_state(internal_invoke_xobject(
        use_xobject_scale(
            use_xobject_rotate(
                use_xobject_translate(save_graphics_state(operations),
                    unwrap_or_zero(translate_x), unwrap_or_zero(translate_y)),
                rotate_cw),
            IF scale_x = None /\ scale_y # None THEN 1 ELSE unwrap_or_zero(scale_x),
            IF scale_y = None /\ scale_x # None THEN 1 ELSE unwrap_or_zero(scale_y)),
        xobj))

\* PdfLayer::use_xobject: q, the transforms that are given, Do, Q
use_xobject(operations, xobj, translate_x, translate_y, rotate_cw, scale_x, scale_y) ==
    restore_graphics_state(internal_invoke_xobject(
        use_xobject_scale(
            use_xobject_rotate(
                use_xobject_translate(save_graphics_state(operations),
                    unwrap_or_zero(translate_x), unwrap_or_zero(translate_y)),
                rotate_cw),
            unwrap_or_zero(scale_x), unwrap_or_zero(scale_y)),
        xobj))

\* use_text without the call of end_text_section
use_text_unclosed(operations, text, font_size, x, y, table, font) ==
    [panic |-> write_text(operations, text, table, font).panic,
     operations |->
         write_text(set_text_cursor(set_font(begin_text_section(operations), font,
                                             font_size), x, y),
                    text, table, font).operations]

\* PdfLayer::use_text: the five calls; a panic of write_text ends the call
use_text(operations, text, font_size, x, y, table, font) ==
    [panic |-> write_text(operations, text, table, font).panic,
     operations |->
         IF write_text(operations, text, table, font).panic
         THEN set_text_cursor(set_font(begin_text_section(operations), font, font_size),
                              x, y)
         ELSE end_text_section(
                  write_text(set_text_cursor(set_font(begin_text_section(operations),
                                                      font, font_size), x, y),
                             text, table, font).operations)]

(***************************************************************************)
(* f64 arithmetic of the width scaling, exact.  A natural number below     *)
(* 2^75 is five digits of base 2^15, the most significant first; an f64    *)
(* is [m, e]: the value m * 2^(e - 52) with m < 2^53 + 1.                  *)
(***************************************************************************)
\* limbs * k, for k < 2^16, from the least significant digit
RECURSIVE MulSmall(_, _, _)
MulSmall(limbs, k, carry) ==
    IF limbs = <<>> THEN <<>>
    ELSE Append(MulSmall(SubSeq(limbs, 1, Len(limbs) - 1), k,
                         (limbs[Len(limbs)] * k + carry) \div 32768),
                (limbs[Len(limbs)] * k + carry) % 32768)

\* limbs * 2^s
RECURSIVE ShiftLeft(_, _)
ShiftLeft(limbs, s) ==
    IF s >= 15 THEN ShiftLeft(Append(Tail(limbs), 0), s - 15)
    ELSE MulSmall(limbs, 2 ^ s, 0)

\* limbs / d for d <= 2^16: quotient and remainder
RECURSIVE DivSmall(_, _, _, _)
DivSmall(limbs, d, r, quot) ==
    IF limbs = <<>>
    THEN [quot |-> quot, rem |-> r]
    ELSE DivSmall(Tail(limbs), d, (r * 32768 + Head(limbs)) % d,
                  Append(quot, (r * 32768 + Head(limbs)) \div d))

\* limbs + 1
RECURSIVE AddOne(_)
AddOne(limbs) ==
    IF limbs = <<>> THEN <<>>
    ELSE IF limbs[Len(limbs)] = 32767
    THEN Append(AddOne(SubSeq(limbs, 1, Len(limbs) - 1)), 0)
    ELSE [limbs EXCEPT ![Len(limbs)] = @ + 1]

\* round to nearest, ties to even, of a division with this quotient and remainder
RoundNearestEven(qr, d) ==
    IF 2 * qr.rem > d \/ (2 * qr.rem = d /\ qr.quot[Len(qr.quot)] % 2 = 1)
    THEN AddOne(qr.quot)
    ELSE qr.quot

\* the number of bits of a digit and of a number
DigitBits(l) == IF l = 0 THEN 0 ELSE CHOOSE b \in 1..15 : 2 ^ (b - 1) <= l /\ l < 2 ^ b

RECURSIVE BitLength(_)
BitLength(limbs) ==
    IF limbs = <<>> THEN 0
    ELSE IF Head(limbs) = 0 THEN BitLength(Tail(limbs))
    ELSE DigitBits(Head(limbs)) + 15 * (Len(limbs) - 1)

\* limbs >> s
RECURSIVE ShiftRight(_, _)
ShiftRight(limbs, s) ==
    IF s >= 15 THEN ShiftRight(<<0>> \o SubSeq(limbs, 1, Len(limbs) - 1), s - 15)
    ELSE DivSmall(limbs, 2 ^ s, 0, <<>>).quot

\* floor(log2(1000 / u)) for a u16 u above 0
Log2Of1000Over(u) ==
    CHOOSE e \in -7..9 :
        /\ (IF e >= 0 THEN u * 2 ^ e <= 1000 ELSE u <= 1000 * 2 ^ (0 - e))
        /\ (IF e + 1 >= 0 THEN u * 2 ^ (e + 1) > 1000 ELSE u > 1000 * 2 ^ (0 - e - 1))

\* 1000.0 / (font.units_per_em() as f64): the quotient rounded to 53 bits
F64Div1000(u) ==
    [m |-> RoundNearestEven(
               DivSmall(ShiftLeft(<<0, 0, 0, 0, 1000>>, 52 - Log2Of1000Over(u)),
                        u, 0, <<>>), u),
     e |-> Log2Of1000Over(u)]

\* the product of an integer below 2^16 and an f64 as limbs and bits to drop:
\* the product rounded to 53 bits is RoundedProduct * 2^DropBits * 2^(e - 52)
DropBits(product) == IF BitLength(product) > 53 THEN BitLength(product) - 53 ELSE 0

RoundedProduct(product) ==
    IF DropBits(product) = 0 THEN product
    ELSE RoundNearestEven(DivSmall(product, 2 ^ DropBits(product), 0, <<>>),
                          2 ^ DropBits(product))

\* the integer part of rounded * 2^(drop + e - 52), a number below 2^30
TruncProduct(product, e) ==
    ShiftRight(RoundedProduct(product), 52 - e - DropBits(product))

\* (width as f64 * scaling) as i64
F64MulTrunc(width, scaling) ==
    LET t == TruncProduct(MulSmall(scaling.m, width, 0), scaling.e)
    IN t[4] * 32768 + t[5]

(***************************************************************************)
(* The font embedding engine: the tables ExternalFont::into_with_document  *)
(* makes of a parsed font.  A parsed font is [units_per_em, descent, cmap, *)
(* advance_width, extents]: cmap gives the glyph id of the code points the *)
(* font maps, advance_width and extents are indexed by glyph id.           *)
(***************************************************************************)
\* for unicode in 0x0000..0xffff: the first code point and the end of the range
UNICODE_START == 0
UNICODE_END == 65535

\* current_cmap_block.len() >= 100
CMAP_BLOCK_LEN == 100

\* the code points the loop queries: a Rust range a..b ends before b
QueriedCodePoints == UNICODE_START..(UNICODE_END - 1)

\* the code points for which the loop reaches cmap.insert: font.glyph(Cp(unicode))
\* has an id other than 0
ResolvedCodePoints(font) ==
    {unicode \in DOMAIN font.cmap :
        unicode \in QueriedCodePoints /\ glyph_id(font, unicode) # 0}

\* the code point of the last cmap.insert(glyph_id, ..) of the loop, which
\* replaces the earlier ones
LastCodePoint(font, resolved, gid) ==
    CHOOSE unicode \in resolved :
        /\ font.cmap[unicode] = gid
        /\ \A other \in resolved : font.cmap[other] = gid => other <= unicode

\* h: extents.max.y - extents.min.y - face_metrics.descent, 1000 without extents
glyph_height(font, gid) ==
    IF font.extents[gid] = None THEN 1000
    ELSE font.extents[gid][1].max_y - font.extents[gid][1].min_y - font.descent

\* the BTreeMap cmap after the loop: glyph id -> (unicode, width, height), with
\* the entry of glyph 0 inserted before the loop
glyph_map_of(font, resolved) ==
    [gid \in {0} \cup {font.cmap[unicode] : unicode \in resolved} |->
        IF gid = 0 THEN <<0, 1000, 1000>>
        ELSE <<LastCodePoint(font, resolved, gid), font.advance_width[gid],
               glyph_height(font, gid)>>]

glyph_map(font) == glyph_map_of(font, ResolvedCodePoints(font))

\* the keys of a BTreeMap in the order of its iteration
MaxKey(map) == CHOOSE k \in DOMAIN map : \A other \in DOMAIN map : other <= k
KeysInOrder(map) == SelectSeq([i \in 1..(MaxKey(map) + 1) |-> i - 1],
                              LAMBDA k : k \in DOMAIN map)

\* the locals of the loop over &cmap before its first iteration
cmap_loop_start ==
    [cur_first_bit |-> 0, current_cmap_block |-> <<>>, all_cmap_blocks |-> <<>>,
     widths |-> <<>>]

\* one iteration of the loop over &cmap, with blocks of up to 101 entries
cmap_loop_step_101(map, gid, st) ==
    IF (gid \div 256) % 65536 # st.cur_first_bit
       \/ Len(st.current_cmap_block) > CMAP_BLOCK_LEN
    THEN [cur_first_bit |-> (gid \div 256) % 65536,
          current_cmap_block |-> <<<<gid, map[gid][1]>>>>,
          all_cmap_blocks |-> Append(st.all_cmap_blocks, st.current_cmap_block),
          widths |-> Append(st.widths, <<gid, map[gid][2]>>)]
    ELSE [cur_first_bit |-> st.cur_first_bit,
          current_cmap_block |-> Append(st.current_cmap_block, <<gid, map[gid][1]>>),
          all_cmap_blocks |-> st.all_cmap_blocks,
          widths |-> Append(st.widths, <<gid, map[gid][2]>>)]

\* one iteration of the loop over &cmap: the current block ends where the high
\* byte of the glyph id changes or the block holds 100 entries; the pair goes
\* into the current block and the width into widths
cmap_loop_step(map, gid, st) ==
    IF (gid \div 256) % 65536 # st.cur_first_bit
       \/ Len(st.current_cmap_block) >= CMAP_BLOCK_LEN
    THEN [cur_first_bit |-> (gid \div 256) % 65536,
          current_cmap_block |-> <<<<gid, map[gid][1]>>>>,
          all_cmap_blocks |-> Append(st.all_cmap_blocks, st.current_cmap_block),
          widths |-> Append(st.widths, <<gid, map[gid][2]>>)]
    ELSE [cur_first_bit |-> st.cur_first_bit,
          current_cmap_block |-> Append(st.current_cmap_block, <<gid, map[gid][1]>>),
          all_cmap_blocks |-> st.all_cmap_blocks,
          widths |-> Append(st.widths, <<gid, map[gid][2]>>)]

\* the iterations lo..hi of the loop over &cmap, in order: the locals after the
\* first half of them are computed, then the second half runs from those
RECURSIVE cmap_loop(_, _, _, _, _)
cmap_loop(map, keys, st, lo, hi) ==
    IF lo > hi THEN st
    ELSE IF lo = hi THEN cmap_loop_step(map, keys[lo], st)
    ELSE CHOOSE after \in
             {cmap_loop(map, keys, before, ((lo + hi) \div 2) + 1, hi) :
                 before \in {cmap_loop(map, keys, st, lo, (lo + hi) \div 2)}} : TRUE

\* all_cmap_blocks after the loop and the push of the last block
cmap_blocks(map, keys) ==
    Append(cmap_loop(map, keys, cmap_loop_start, 1, Len(keys)).all_cmap_blocks,
           cmap_loop(map, keys, cmap_loop_start, 1, Len(keys)).current_cmap_block)

\* widths: (glyph id, width) in the order of the iteration over &cmap
widths_of(map, keys) == cmap_loop(map, keys, cmap_loop_start, 1, Len(keys)).widths

\* the lines of one block: N beginbfchar, <glyph id> <unicode> a pair, endbfchar
cmap_block_lines(cmap_block) ==
    <<<<"beginbfchar", Len(cmap_block)>>>>
    \o [i \in 1..Len(cmap_block) |-> <<"bfchar", cmap_block[i][1], cmap_block[i][2]>>]
    \o <<<<"endbfchar">>>>

\* the blocks generate_cid_to_unicode_map writes: the filter keeps a block that
\* is not empty or has less than 100 entries
RECURSIVE cmap_lines(_)
cmap_lines(all_cmap_blocks) ==
    IF all_cmap_blocks = <<>> THEN <<>>
    ELSE (IF Head(all_cmap_blocks) # <<>> \/ Len(Head(all_cmap_blocks)) < 100
          THEN cmap_block_lines(Head(all_cmap_blocks))
          ELSE <<>>)
         \o cmap_lines(Tail(all_cmap_blocks))

\* generate_cid_to_unicode_map: the lines between the two templates
generate_cid_to_unicode_map(face_name, all_cmap_blocks) ==
    <<<<"gid_to_unicode_beg", face_name>>>> \o cmap_lines(all_cmap_blocks)
    \o <<<<"gid_to_unicode_end">>>>

\* Integer((width as f64 * percentage_font_scaling) as i64)
scaled_width(width, percentage_font_scaling) ==
    Integer(F64MulTrunc(width, percentage_font_scaling))

\* the locals of the loop over widths before its first iteration
widths_loop_start ==
    [current_low_gid |-> 0, current_high_gid |-> 0, current_width_vec |-> <<>>,
     widths_list |-> <<>>]

\* one iteration of the loop over widths: the width joins the current run if the
\* glyph id follows it, else the run is pushed and a new run starts
widths_loop_step(scaling, gid_width, st) ==
    IF gid_width[1] = st.current_high_gid
    THEN [current_low_gid |-> st.current_low_gid,
          current_high_gid |-> st.current_high_gid + 1,
          current_width_vec |->
              Append(st.current_width_vec, scaled_width(gid_width[2], scaling)),
          widths_list |-> st.widths_list]
    ELSE [current_low_gid |-> gid_width[1],
          current_high_gid |-> gid_width[1] + 1,
          current_width_vec |-> <<scaled_width(gid_width[2], scaling)>>,
          widths_list |-> st.widths_list
              \o <<Integer(st.current_low_gid), Array(st.current_width_vec)>>]

\* the iterations lo..hi of the loop over widths, in order, the first half
\* before the second
RECURSIVE widths_loop(_, _, _, _, _)
widths_loop(widths, scaling, st, lo, hi) ==
    IF lo > hi THEN st
    ELSE IF lo = hi THEN widths_loop_step(scaling, widths[lo], st)
    ELSE CHOOSE after \in
             {widths_loop(widths, scaling, before, ((lo + hi) \div 2) + 1, hi) :
                 before \in {widths_loop(widths, scaling, st, lo, (lo + hi) \div 2)}} : TRUE

\* widths_list after the loop and the push of the last run
widths_list_after(st) ==
    st.widths_list \o <<Integer(st.current_low_gid), Array(st.current_width_vec)>>

widths_list_of(widths, scaling) ==
    widths_list_after(widths_loop(widths, scaling, widths_loop_start, 1, Len(widths)))

\* total_width += w as u32, once for every resolved code point: the sum over
\* the glyphs keys[lo..hi] of the advance of the glyph times the number of the
\* code points that resolve to it
RECURSIVE total_width_range(_, _, _, _, _)
total_width_range(font, resolved, keys, lo, hi) ==
    IF lo > hi THEN 0
    ELSE IF lo = hi
    THEN font.advance_width[keys[lo]]
         * Cardinality({unicode \in resolved : font.cmap[unicode] = keys[lo]})
    ELSE total_width_range(font, resolved, keys, lo, (lo + hi) \div 2)
         + total_width_range(font, resolved, keys, ((lo + hi) \div 2) + 1, hi)

total_width(font, resolved, keys) ==
    total_width_range(font, resolved, keys, 1, Len(keys))

\* max_height: the largest h of a resolved glyph, at least 0
max_height(map) ==
    IF DOMAIN map = {0} THEN 0
    ELSE LET hs == {map[gid][3] : gid \in DOMAIN map \ {0}} \cup {0}
         IN CHOOSE h \in hs : \A other \in hs : other <= h

\* the tables into_with_document makes of the font
font_tables_of(font, face_name, map, keys) ==
    [done |-> TRUE,
     cmap |-> map,
     all_cmap_blocks |-> cmap_blocks(map, keys),
     cid_to_unicode_map |->
         generate_cid_to_unicode_map(face_name, cmap_blocks(map, keys)),
     W |-> Array(widths_list_of(widths_of(map, keys), F64Div1000(font.units_per_em))),
     FontBBox |-> Array(<<Integer(0), Integer(max_height(map)),
                          Integer(total_width(font, ResolvedCodePoints(font), keys)),
                          Integer(max_height(map))>>)]

font_tables_with(font, face_name, map) ==
    font_tables_of(font, face_name, map, KeysInOrder(map))

font_tables(font, face_name) == font_tables_with(font, face_name, glyph_map(font))

\* an operand as it is written into a content stream
EncodeOperand(o) ==
    CASE o.type = "Name" -> "/" \o o.v
      [] o.type = "Integer" -> Decimal(o.v)
      [] o.type = "String" /\ "format" \in DOMAIN o -> HexEncode(o.v)
      [] OTHER -> o.v

\* lopdf::content::Content::encode: every operation writes its operands, then its
\* operator
RECURSIVE Content_encode(_)
Content_encode(operations) ==
    IF operations = <<>> THEN <<>>
    ELSE LET op == Head(operations)
         IN [i \in 1..Len(op.operands) |-> EncodeOperand(op.operands[i])]
              \o <<op.operator>> \o Content_encode(Tail(operations))

\* impl Into<lopdf::Stream> for PdfLayer
PdfLayer_into_stream(layer) ==
    Stream(EmptyDict, Content_encode(layer.operations), FALSE)

\* variant with a slip: BDC is put in front first and q after it, Q is pushed
\* after EMC, so that the save/restore pair ends up as the outer one
collect_resources_and_streams_q_outer(page, doc, layers) ==
    LET cur_layers == [i \in 1..Len(layers) |-> layers[i].obj]
        r == PdfResources_into_with_layers(page.resources, cur_layers)
        ocg_refs == r.ocg_references
        wrapped(idx) ==
            LET layer == page.layers[idx]
                ops1 == <<Operation("BDC", <<Name("OC"), Name(ocg_refs[idx].name)>>)>>
                           \o layer.operations
                ops2 == <<Operation("q", <<>>)>> \o ops1
                ops3 == Append(ops2, Operation("EMC", <<>>))
                ops4 == Append(ops3, Operation("Q", <<>>))
            IN PdfLayer_into_stream([layer EXCEPT !.operations = ops4])
        in_bounds == \A idx \in 1..Len(page.layers) : idx \in 1..Len(ocg_refs)
    IN [doc |-> doc,
        panic |-> ~in_bounds,
        resource_dictionary |-> r.dict,
        layer_streams |-> IF in_bounds
                          THEN [idx \in 1..Len(page.layers) |-> wrapped(idx)]
                          ELSE <<>>]

\* PdfPage::collect_resources_and_streams; panic is TRUE when ocg_refs[idx] is out
\* of bounds for some layer
collect_resources_and_streams(page, doc, layers) ==
    LET cur_layers == [i \in 1..Len(layers) |-> layers[i].obj]
        r == PdfResources_into_with_layers(page.resources, cur_layers)
        ocg_refs == r.ocg_references
        wrapped(idx) ==
            LET layer == page.layers[idx]
                ops1 == <<Operation("q", <<>>)>> \o layer.operations
                ops2 == <<Operation("BDC", <<Name("OC"), Name(ocg_refs[idx].name)>>)>> \o ops1
                ops3 == Append(ops2, Operation("Q", <<>>))
                ops4 == Append(ops3, Operation("EMC", <<>>))
            IN PdfLayer_into_stream([layer EXCEPT !.operations = ops4])
        in_bounds == \A idx \in 1..Len(page.layers) : idx \in 1..Len(ocg_refs)
    IN [doc |-> doc,
        panic |-> ~in_bounds,
        resource_dictionary |-> r.dict,
        layer_streams |-> IF in_bounds
                          THEN [idx \in 1..Len(page.layers) |-> wrapped(idx)]
                          ELSE <<>>]

(***************************************************************************)
(* PdfDocument::save                                                       *)
(***************************************************************************)
\* PdfMetadata::into_obj: (xmp_metadata, document_info, icc_profile); the XMP
\* stream and the ICC profile are there when the conformance asks for them
PdfMetadata_into_obj(conf) ==
    [xmp_metadata |-> IF conf.requires_xmp_metadata
                      THEN Some(Stream(DictFromIter(<< <<"Type", Name("Metadata")>>,
                                                       <<"Subtype", Name("XML")>> >>),
                                       <<"xmp">>, FALSE))
                      ELSE None,
     document_info |-> Dictionary(DictFromIter(<< <<"Trapped", Name("False")>> >>)),
     icc_profile |-> IF conf.requires_icc_profile
                     THEN Some(Stream(EmptyDict, <<"icc">>, TRUE))
                     ELSE None]

\* the OCG dictionary of one layer
OcgDictionary(layer_name, intent_arr_ref, usage_ocg_dict_ref) ==
    Dictionary(DictFromIter(<< <<"Type", Name("OCG")>>,
                               <<"Name", Str(layer_name)>>,
                               <<"Intent", Reference(intent_arr_ref)>>,
                               <<"Usage", Reference(usage_ocg_dict_ref)>> >>))

\* the inner map of ocg_list: one OCG object per layer name, (layer index, reference)
RECURSIVE LayerOcgs(_, _, _, _)
LayerOcgs(doc, layer_names, intent_arr_ref, usage_ocg_dict_ref) ==
    IF layer_names = <<>> THEN [doc |-> doc, layers |-> <<>>]
    ELSE LET n == Len(layer_names)
             before == LayerOcgs(doc, SubSeq(layer_names, 1, n - 1),
                                 intent_arr_ref, usage_ocg_dict_ref)
             d1 == add_object(before.doc,
                              OcgDictionary(layer_names[n], intent_arr_ref, usage_ocg_dict_ref))
         IN [doc |-> d1,
             layers |-> Append(before.layers, [idx |-> n - 1, obj |-> Reference(d1.max_id)])]

\* ocg_list: (page index, [(layer index, reference to the OCG dictionary)])
RECURSIVE OcgList(_, _, _, _)
OcgList(doc, page_layer_names, intent_arr_ref, usage_ocg_dict_ref) ==
    IF page_layer_names = <<>> THEN [doc |-> doc, list |-> <<>>]
    ELSE LET n == Len(page_layer_names)
             before == OcgList(doc, SubSeq(page_layer_names, 1, n - 1),
                               intent_arr_ref, usage_ocg_dict_ref)
             r == LayerOcgs(before.doc, page_layer_names[n].names,
                            intent_arr_ref, usage_ocg_dict_ref)
         IN [doc |-> r.doc,
             list |-> Append(before.list,
                             [page_idx |-> page_layer_names[n].page_idx, layers |-> r.layers])]

\* variant with a slip: only the first layer of each page is listed
RECURSIVE Flatten_first_layer_only(_)
Flatten_first_layer_only(ocg_list) ==
    IF ocg_list = <<>> THEN <<>>
    ELSE LET first == Head(ocg_list).layers
         IN (IF first = <<>> THEN <<>> ELSE <<first[1].obj>>)
               \o Flatten_first_layer_only(Tail(ocg_list))

\* flattened_ocg_list: the references of all pages' layers, page by page
RECURSIVE Flatten(_)
Flatten(ocg_list) ==
    IF ocg_list = <<>> THEN <<>>
    ELSE LET first == Head(ocg_list).layers
         IN [i \in 1..Len(first) |-> first[i].obj] \o Flatten(Tail(ocg_list))

\* variant with a slip: the layer streams are appended last to first
RECURSIVE MergeStreams_reversed(_)
MergeStreams_reversed(layer_streams) ==
    IF layer_streams = <<>> THEN <<>>
    ELSE MergeStreams_reversed(Tail(layer_streams)) \o Head(layer_streams).v.content

\* layer_streams_merged_vec: the contents of the layer streams appended in order
RECURSIVE MergeStreams(_)
MergeStreams(layer_streams) ==
    IF layer_streams = <<>> THEN <<>>
    ELSE Head(layer_streams).v.content \o MergeStreams(Tail(layer_streams))

\* the page dictionary save starts from
PageDictionary(page, pages_id) ==
    LET box == Array(<<Integer(0), Integer(0), Real(page.width), Real(page.height)>>)
    IN DictFromIter(<< <<"Type", Name("Page")>>,
                       <<"Rotate", Integer(0)>>,
                       <<"MediaBox", box>>,
                       <<"TrimBox", box>>,
                       <<"CropBox", box>>,
                       <<"Parent", Reference(pages_id)>> >>)

\* the locals of save, before its first statement
SaveLocals(doc) ==
    [doc |-> doc, panic |-> FALSE,
     pages_id |-> 0, xmp_metadata_id |-> None, document_info_id |-> 0,
     icc_profile_id |-> None, catalog |-> EmptyDict, pages |-> EmptyDict,
     usage_ocg_dict_ref |-> 0, intent_arr_ref |-> 0, ocg_list |-> <<>>,
     font_dict_id |-> None, page_ids |-> <<>>, page_recs |-> <<>>,
     p |-> EmptyDict, resources_page |-> EmptyDict, resources_page_id |-> None,
     layer_streams |-> <<>>, page_content_id |-> 0,
     catalog_id |-> 0, instance_id |-> "", seed |-> 0,
     trailer |-> EmptyDict, built |-> EmptyDict]

\* let <local> = doc.add_object(o)
LetAddObject(st, local, o) ==
    LET d == add_object(st.doc, o)
    IN [st EXCEPT !.doc = d, ![local] = d.max_id]

\* let layers_temp = ocg_list.iter().find(|e| e.0 == idx).unwrap();
\* page.collect_resources_and_streams(&mut doc, &layers_temp.1)
page_collect(st, idx, page) ==
    LET found == {k \in 1..Len(st.ocg_list) : st.ocg_list[k].page_idx = idx}
        layers_temp == st.ocg_list[CHOOSE k \in found : \A j \in found : k <= j]
        c == collect_resources_and_streams(page, st.doc, layers_temp.layers)
    IN IF st.panic \/ found = {} \/ c.panic
       THEN [st EXCEPT !.panic = TRUE]
       ELSE [st EXCEPT !.doc = c.doc,
                       !.p = PageDictionary(page, st.pages_id),
                       !.resources_page = c.resource_dictionary,
                       !.layer_streams = c.layer_streams]

\* variant with a slip: every page gets a copy of the font dictionary of its own
page_set_font_own_copy(st) ==
    IF st.panic \/ st.font_dict_id = None THEN st
    ELSE LET d == add_object(st.doc, st.doc.objects[st.font_dict_id[1]])
         IN [st EXCEPT !.doc = d,
                       !.resources_page = DictSet(@, "Font", Reference(d.max_id))]

\* if let Some(f) = font_dict_id { resources_page.set("Font", Reference(f)) }
page_set_font(st) ==
    IF st.panic \/ st.font_dict_id = None THEN st
    ELSE [st EXCEPT !.resources_page = DictSet(@, "Font", Reference(st.font_dict_id[1]))]

\* if resources_page.len() > 0 { p.set("Resources", Reference(doc.add_object(..))) }
page_resources(st) ==
    IF st.panic \/ DictLen(st.resources_page) = 0
    THEN [st EXCEPT !.resources_page_id = None]
    ELSE LET d == add_object(st.doc, Dictionary(st.resources_page))
         IN [st EXCEPT !.doc = d,
                       !.resources_page_id = Some(d.max_id),
                       !.p = DictSet(@, "Resources", Reference(d.max_id))]

\* the layer streams merged into one uncompressed stream, set as Contents
page_contents(st) ==
    IF st.panic THEN st
    ELSE LET d == add_object(st.doc, Stream(EmptyDict, MergeStreams(st.layer_streams), FALSE))
         IN [st EXCEPT !.doc = d,
                       !.page_content_id = d.max_id,
                       !.p = DictSet(@, "Contents", Reference(d.max_id))]

\* page_ids.push(Reference(doc.add_object(p)))
page_push(st) ==
    IF st.panic THEN st
    ELSE LET d == add_object(st.doc, Dictionary(st.p))
         IN [st EXCEPT !.doc = d,
                       !.page_ids = Append(@, Reference(d.max_id)),
                       !.page_recs = Append(@, [resources_page_id |-> st.resources_page_id,
                                                page_content_id |-> st.page_content_id,
                                                page_id |-> d.max_id])]

\* one iteration of `for (idx, page) in self.pages.into_iter().enumerate()`
SavePage(st, idx, page) ==
    page_push(page_contents(page_resources(page_set_font(page_collect(st, idx, page)))))

\* variant with a slip: the page loop walks the pages from the last to the first
RECURSIVE SavePages_reversed(_, _, _)
SavePages_reversed(st, the_pages, n) ==
    IF n = 0 THEN st
    ELSE SavePage(SavePages_reversed(st, the_pages, n - 1),
                  Len(the_pages) - n, the_pages[Len(the_pages) - n + 1])

\* the page loop of save, over pages 1..n (page index idx = n - 1)
RECURSIVE SavePages(_, _, _)
SavePages(st, the_pages, n) ==
    IF n = 0 THEN st
    ELSE SavePage(SavePages(st, the_pages, n - 1), n - 1, the_pages[n])

(***************************************************************************)
(* PdfDocument::optimize (release builds): prune_objects,                  *)
(* delete_zero_length_streams, compress.                                   *)
(***************************************************************************)
IsRef(o, id) == o.type = "Reference" /\ o.v = id

\* the identifiers an object refers to, directly or inside its arrays,
\* dictionaries and stream dictionary
RECURSIVE RefsIn(_)
RefsIn(o) ==
    CASE o.type = "Reference" -> {o.v}
      [] o.type = "Array" -> UNION {RefsIn(o.v[i]) : i \in 1..Len(o.v)}
      [] o.type = "Dictionary" -> UNION {RefsIn(o.v[k]) : k \in DOMAIN o.v}
      [] o.type = "Stream" -> UNION {RefsIn(o.v.dict[k]) : k \in DOMAIN o.v.dict}
      [] OTHER -> {}

\* lopdf::Document::traverse_objects: the identifiers reachable from the trailer
RECURSIVE Reach(_, _, _)
Reach(objs, seen, frontier) ==
    IF frontier = {} THEN seen
    ELSE LET seen1 == seen \cup frontier
             next == UNION {RefsIn(objs[id]) : id \in frontier \cap DOMAIN objs}
         IN Reach(objs, seen1, next \ seen1)

\* lopdf::Document::prune_objects: drop what the trailer does not reach
prune_objects(doc, trailer) ==
    LET refs == Reach(doc.objects, {}, RefsIn(Dictionary(trailer)))
    IN [doc EXCEPT !.objects = [id \in (DOMAIN doc.objects) \cap refs |-> doc.objects[id]]]

\* the action of lopdf::Document::delete_object on one object: an array loses its
\* first item that refers to id, a dictionary its entries that refer to id
RECURSIVE StripRef(_, _)
StripRef(o, id) ==
    CASE o.type = "Array" ->
            LET hits == {i \in 1..Len(o.v) : IsRef(o.v[i], id)}
                first == CHOOSE i \in hits : \A j \in hits : i <= j
                arr == IF hits = {} THEN o.v
                       ELSE SubSeq(o.v, 1, first - 1) \o SubSeq(o.v, first + 1, Len(o.v))
            IN Array([i \in 1..Len(arr) |-> StripRef(arr[i], id)])
      [] o.type = "Dictionary" ->
            LET kept == {k \in DOMAIN o.v : ~IsRef(o.v[k], id)}
            IN Dictionary([k \in kept |-> StripRef(o.v[k], id)])
      [] o.type = "Stream" ->
            [o EXCEPT !.v.dict = [k \in DOMAIN o.v.dict |-> StripRef(o.v.dict[k], id)]]
      [] OTHER -> o

\* lopdf::Document::delete_zero_length_streams: every stream with no content is
\* deleted, with the references to it
RECURSIVE delete_zero_length_streams(_, _)
delete_zero_length_streams(doc, trailer) ==
    LET empty == {id \in DOMAIN doc.objects :
                     doc.objects[id].type = "Stream" /\ doc.objects[id].v.content = <<>>}
        id == CHOOSE i \in empty : \A j \in empty : i <= j
        d1 == [doc EXCEPT !.objects =
                  [i \in (DOMAIN doc.objects) \ {id} |-> StripRef(doc.objects[i], id)]]
    IN IF empty = {} THEN [doc |-> doc, trailer |-> trailer]
       ELSE delete_zero_length_streams(d1, StripRef(Dictionary(trailer), id).v)

\* lopdf::Document::compress: a stream that allows compression gets the Flate filter
compress(doc) ==
    [doc EXCEPT !.objects =
        [id \in DOMAIN doc.objects |->
            LET o == doc.objects[id]
            IN IF o.type = "Stream" /\ o.v.allows_compression /\ ~DictHas(o.v.dict, "Filter")
               THEN [o EXCEPT !.v.dict = DictSet(@, "Filter", Name("FlateDecode"))]
               ELSE o]]

\* PdfDocument::optimize: nothing in a debug build
optimize(doc, trailer, release) ==
    IF ~release THEN [doc |-> doc, trailer |-> trailer]
    ELSE LET d1 == prune_objects(doc, trailer)
             r == delete_zero_length_streams(d1, trailer)
         IN [doc |-> compress(r.doc), trailer |-> r.trailer]

(***************************************************************************)
(* PdfDocument::save(self, target)                                         *)
(***************************************************************************)
\* let pages_id = doc.new_object_id()
save_pages_id(st) ==
    LET d == new_object_id(st.doc)
    IN [st EXCEPT !.doc = d, !.pages_id = d.max_id]

\* xmp_metadata.map(|m| doc.add_object(m)); doc.add_object(document_info)
save_xmp_metadata(st, meta) ==
    IF meta.xmp_metadata = None THEN st
    ELSE [LetAddObject(st, "xmp_metadata_id", meta.xmp_metadata[1])
             EXCEPT !.xmp_metadata_id = Some(@)]

save_document_info(st, meta) ==
    LetAddObject(st, "document_info_id", meta.document_info)

output_intents ==
    DictFromIter(<< <<"S", Name("GTS_PDFX")>>,
                    <<"OutputCondition", Str("Commercial and special offset print")>>,
                    <<"Type", Name("OutputIntent")>>,
                    <<"OutputConditionIdentifier", Str("FOGRA39")>>,
                    <<"RegistryName", Str("http://www.color.org")>>,
                    <<"Info", Str("Coated FOGRA39 (ISO 12647-2:2004)")>> >>)

save_catalog(st) ==
    [st EXCEPT !.catalog = DictFromIter(<< <<"Type", Name("Catalog")>>,
                                           <<"PageLayout", Name("OneColumn")>>,
                                           <<"PageMode", Name("Use0")>>,
                                           <<"Pages", Reference(st.pages_id)>> >>)]

\* if let Some(profile) = icc_profile { .. }
save_icc_profile(st, meta) ==
    IF meta.icc_profile = None THEN st
    ELSE LET d == add_object(st.doc, meta.icc_profile[1])
         IN [st EXCEPT !.doc = d,
                       !.icc_profile_id = Some(d.max_id),
                       !.catalog = DictSet(@, "OutputIntents",
                            Array(<<Dictionary(DictSet(output_intents,
                                       "DestinationOutputProfile", Reference(d.max_id)))>>))]

\* if let Some(metadata_id) = xmp_metadata_id { catalog.set("Metadata", ..) }
save_metadata_reference(st) ==
    IF st.xmp_metadata_id = None THEN st
    ELSE [st EXCEPT !.catalog = DictSet(@, "Metadata", Reference(st.xmp_metadata_id[1]))]

save_pages_dict(st, the_pages) ==
    [st EXCEPT !.pages = DictFromIter(<< <<"Type", Name("Pages")>>,
                                         <<"Count", Integer(Len(the_pages))>> >>)]

\* variant with a slip: a page without layers gets no entry
page_layer_names_skip_empty(the_pages) ==
    SelectSeq([i \in 1..Len(the_pages) |->
                  [page_idx |-> i - 1,
                   names |-> [l \in 1..Len(the_pages[i].layers) |->
                                 the_pages[i].layers[l].name]]],
              LAMBDA e : e.names # <<>>)

\* page index and layer names of every page
page_layer_names(the_pages) ==
    [i \in 1..Len(the_pages) |->
        [page_idx |-> i - 1,
         names |-> [l \in 1..Len(the_pages[i].layers) |-> the_pages[i].layers[l].name]]]

usage_ocg_dict ==
    DictFromIter(<< <<"Type", Name("OCG")>>,
                    <<"CreatorInfo", Dictionary(DictFromIter(
                         << <<"Creator", Str("Adobe Illustrator 14.0")>>,
                            <<"Subtype", Name("Artwork")>> >>))>> >>)

save_usage_ocg_dict(st) ==
    LetAddObject(st, "usage_ocg_dict_ref", Dictionary(usage_ocg_dict))

save_intent_arr(st) ==
    LetAddObject(st, "intent_arr_ref", Array(<<Name("View"), Name("Design")>>))

save_ocg_list(st, the_pages) ==
    LET ocgs == OcgList(st.doc, page_layer_names(the_pages),
                        st.intent_arr_ref, st.usage_ocg_dict_ref)
    IN [st EXCEPT !.doc = ocgs.doc, !.ocg_list = ocgs.list]

\* catalog.set("OCProperties", ..) with the flattened list in its three places
save_oc_properties(st) ==
    [st EXCEPT !.catalog = DictSet(@, "OCProperties", Dictionary(DictFromIter(
        << <<"OCGs", Array(Flatten(st.ocg_list))>>,
           <<"D", Dictionary(DictFromIter(
                << <<"Order", Array(Flatten(st.ocg_list))>>,
                   <<"RBGroups", Array(<<>>)>>,
                   <<"ON", Array(Flatten(st.ocg_list))>> >>))>> >>)))]

\* fonts_dict = self.fonts.into_with_document(&mut doc); the font dictionary is
\* added when it is not empty
save_fonts(st, table) ==
    LET fl == FontList_into_with_document(table, st.doc)
    IN IF DictLen(fl.dict) > 0
       THEN [LetAddObject([st EXCEPT !.doc = fl.doc], "font_dict_id", Dictionary(fl.dict))
                EXCEPT !.font_dict_id = Some(@)]
       ELSE [st EXCEPT !.doc = fl.doc]

\* pages.set("Kids", page_ids); doc.objects.insert(pages_id, Dictionary(pages))
save_kids(st) ==
    [st EXCEPT !.doc = objects_insert(@, st.pages_id,
                           Dictionary(DictSet(st.pages, "Kids", Array(st.page_ids))))]

\* let catalog_id = doc.add_object(catalog); trailer Root and Info
save_catalog_id(st) ==
    LET d == add_object(st.doc, Dictionary(st.catalog))
    IN [st EXCEPT !.doc = d, !.catalog_id = d.max_id]

\* let instance_id = random_character_string_32(), drawn when RAND_SEED holds seed
save_instance_id_drawn(st, drawn) ==
    [st EXCEPT !.instance_id = drawn.string, !.seed = drawn.seed]

save_instance_id(st, seed) == save_instance_id_drawn(st, random_character_string_32(seed))

\* a trailer whose ID has the instance identifier first
save_trailer_instance_first(st, doc_id) ==
    [st EXCEPT !.trailer =
        DictFromIter(<< <<"Root", Reference(st.catalog_id)>>,
                        <<"Info", Reference(st.document_info_id)>>,
                        <<"ID", Array(<<Str(st.instance_id), Str(doc_id)>>)>> >>)]

\* doc.trailer.set("Root", ..); .set("Info", ..); .set("ID", ..)
save_trailer(st, doc_id) ==
    [st EXCEPT !.trailer =
        DictFromIter(<< <<"Root", Reference(st.catalog_id)>>,
                        <<"Info", Reference(st.document_info_id)>>,
                        <<"ID", Array(<<Str(doc_id), Str(st.instance_id)>>)>> >>)]

save_catalog_and_trailer(st, doc_id, seed) ==
    IF st.panic
    THEN [st EXCEPT !.seed = seed]
    ELSE save_trailer(save_instance_id(save_catalog_id(st), seed), doc_id)

\* Self::optimize(&mut doc); built keeps the objects as they were handed to it
save_optimize(st, release) ==
    LET opt == optimize(st.doc, st.trailer, release)
    IN [st EXCEPT !.doc = opt.doc, !.trailer = opt.trailer, !.built = st.doc.objects]

\* the statements of save up to the OCG content
save_head(doc, the_pages, meta) ==
    save_pages_dict(
      save_metadata_reference(
        save_icc_profile(
          save_catalog(
            save_document_info(
              save_xmp_metadata(
                save_pages_id(SaveLocals(doc)), meta), meta)), meta)), the_pages)

\* the OCG content, the fonts and the page content
save_body(st, table, the_pages) ==
    SavePages(
      save_fonts(
        save_oc_properties(
          save_ocg_list(
            save_intent_arr(
              save_usage_ocg_dict(st)), the_pages)), table), the_pages, Len(the_pages))

\* what the caller and the claims see of a finished save
SaveResult(st, release) ==
    [panic |-> st.panic,
     doc |-> st.doc,
     out |-> [saved |-> TRUE,
              release |-> release,
              pages_id |-> st.pages_id,
              xmp_metadata_id |-> st.xmp_metadata_id,
              document_info_id |-> st.document_info_id,
              icc_profile_id |-> st.icc_profile_id,
              usage_ocg_dict_ref |-> st.usage_ocg_dict_ref,
              intent_arr_ref |-> st.intent_arr_ref,
              ocg_list |-> st.ocg_list,
              font_dict_id |-> st.font_dict_id,
              page_recs |-> st.page_recs,
              catalog_id |-> st.catalog_id,
              instance_id |-> st.instance_id,
              seed |-> st.seed,
              trailer |-> st.trailer,
              built |-> st.built]]

save(doc0, table, the_pages, conf, doc_id, seed, release) ==
    SaveResult(
      save_optimize(
        save_catalog_and_trailer(
          save_kids(
            save_body(save_head(doc0, the_pages, PdfMetadata_into_obj(conf)),
                      table, the_pages)),
          doc_id, seed),
        release),
      release)

(***************************************************************************)
(* Actions of the document.                                                *)
(***************************************************************************)
TheDoc == [max_id |-> max_id, objects |-> objects]

AddBuiltinFont(builtin_font) ==
    /\ phase = "building"
    /\ Len(fontLog) < MaxFontCalls
    /\ LET r == add_builtin_font(fonts, TheDoc, builtin_font)
       IN /\ max_id' = r.doc.max_id
          /\ objects' = r.doc.objects
          /\ fonts' = r.fonts
          /\ fontLog' = Append(fontLog, [op |-> "add_builtin_font",
                                         arg |-> builtin_font, ret |-> r.ret])
    /\ UNCHANGED <<embedded, resources, regLog, panicked, pages, conformance, phase, out>>
    /\ UNCHANGED <<idVars, textVars, faceVars>>

AddExternalFont(font_stream) ==
    /\ phase = "building"
    /\ Len(fontLog) < MaxFontCalls
    /\ LET r == add_external_font(fonts, TheDoc, font_stream)
       IN /\ max_id' = r.doc.max_id
          /\ objects' = r.doc.objects
          /\ fonts' = r.fonts
          /\ fontLog' = Append(fontLog, [op |-> "add_external_font",
                                         arg |-> font_stream, ret |-> r.ret])
    /\ UNCHANGED <<embedded, resources, regLog, panicked, pages, conformance, phase, out>>
    /\ UNCHANGED <<idVars, textVars, faceVars>>

\* PdfDocument::add_page
AddPage(page) ==
    /\ phase = "building"
    /\ Len(pages) < MaxPages
    /\ pages' = Append(pages, page)
    /\ UNCHANGED <<max_id, objects, embedded, resources, regLog, panicked,
                   fonts, fontLog, conformance, phase, out>>
    /\ UNCHANGED <<idVars, textVars, faceVars>>

\* PdfDocument::set_conformance
SetConformance(c) ==
    /\ phase = "building"
    /\ conformance # c
    /\ conformance' = c
    /\ UNCHANGED <<max_id, objects, embedded, resources, regLog, panicked,
                   fonts, fontLog, pages, phase, out>>
    /\ UNCHANGED <<idVars, textVars, faceVars>>

\* PdfDocument::save, in a debug or a release build
Save(release) ==
    /\ phase = "building"
    /\ LET r == save(TheDoc, fonts, pages, conformance, document_id, RAND_SEED, release)
       IN IF r.panic
          THEN /\ panicked' = TRUE
               /\ UNCHANGED <<max_id, objects, out, RAND_SEED, idLog>>
          ELSE /\ max_id' = r.doc.max_id
               /\ objects' = r.doc.objects
               /\ out' = r.out
               /\ RAND_SEED' = r.out.seed
               /\ idLog' = Append(idLog,
                                  IdEntry("instance_id", 1,
                                          random_character_string_32(RAND_SEED).chars))
               /\ UNCHANGED panicked
    /\ phase' = "sealed"
    /\ UNCHANGED <<embedded, resources, regLog, fonts, fontLog, pages, conformance,
                   document_id, xmp_document_id, idCalls, textVars, faceVars>>

Init ==
    /\ InitDoc
    /\ resources = [d \in DictIds |-> EmptyDict]
    /\ face = NoFace

Next ==
    \/ \E resource \in DocEmbedInputs : Embed(resource)
    \/ \E builtin_font \in BuiltinInputs : AddBuiltinFont(builtin_font)
    \/ \E font_stream \in FontStreams : AddExternalFont(font_stream)
    \/ \E page \in PageInputs : AddPage(page)
    \/ \E c \in ConformanceInputs : SetConformance(c)
    \/ \E release \in BOOLEAN : Save(release)

Spec == Init /\ [][Next]_vars

(***************************************************************************)
(* Writing text: fonts are added to the document, text is written into a   *)
(* layer, the layer is added with its page and the document is saved.      *)
(***************************************************************************)
MaxOps == 2
MaxTextLen == 2

\* the chars callers write: A, the euro sign, an emoji (U+1F600)
Chars == {65, 8364, 128512}
Texts == UNION {[1..n -> Chars] : n \in 0..MaxTextLen}

\* the glyph ids callers write
CodepointInputs == {<<258, 0>>, <<3, 770>>}

\* the font streams of the documents text is written for
TextFontStreams == {"ttfA"}

\* the IndirectFontRef values the document has handed out
FontRefs == {fonts[i].name : i \in 1..Len(fonts)}

\* PdfLayer::write_text with a font of the document
WriteText(text, font) ==
    /\ phase = "building"
    /\ Len(pages) = 0
    /\ Len(layerOps) < MaxOps
    /\ font \in FontRefs
    /\ layerOps' = write_text(layerOps, text, fonts, font).operations
    /\ writeLog' = Append(writeLog, [op |-> "write_text", text |-> text, font |-> font])
    /\ UNCHANGED <<max_id, objects, embedded, resources, regLog, panicked,
                   fonts, fontLog, pages, conformance, phase, out, idVars, faceVars>>

\* PdfLayer::write_codepoints
WriteCodepoints(codepoints) ==
    /\ phase = "building"
    /\ Len(pages) = 0
    /\ Len(layerOps) < MaxOps
    /\ layerOps' = write_codepoints(layerOps, codepoints)
    /\ writeLog' = Append(writeLog, [op |-> "write_codepoints", text |-> codepoints,
                                     font |-> ""])
    /\ UNCHANGED <<max_id, objects, embedded, resources, regLog, panicked,
                   fonts, fontLog, pages, conformance, phase, out, idVars, faceVars>>

\* the page the layer is added to
TextPage == PdfPage(210, 297, <<PdfLayer("Layer 1", layerOps)>>)

\* page.add_layer(layer); doc.add_page(page)
AddTextPage ==
    /\ Len(pages) = 0
    /\ AddPage(TextPage)

\* doc.save(..) of the document that holds the page
SaveText(release) ==
    /\ Len(pages) = 1
    /\ Save(release)

NextText ==
    \/ \E builtin_font \in BuiltinInputs : AddBuiltinFont(builtin_font)
    \/ \E font_stream \in TextFontStreams : AddExternalFont(font_stream)
    \/ \E text \in Texts : \E font \in FontRefs : WriteText(text, font)
    \/ \E codepoints \in CodepointInputs : WriteCodepoints(codepoints)
    \/ AddTextPage
    \/ \E release \in BOOLEAN : SaveText(release)

SpecText == Init /\ [][NextText]_vars

(***************************************************************************)
(* The font engine: a font is parsed, into_with_document makes its tables. *)
(***************************************************************************)
\* the number of code points of the long run of the fonts
LongRun == 130

\* a run of a character map: count code points from start_code on have the
\* glyphs from start_glyph on
Segment(start_code, count, start_glyph) ==
    [start_code |-> start_code, count |-> count, start_glyph |-> start_glyph]

\* the runs the fonts are made of: A..C; a, b with the glyphs of B, C; a long run
\* of ideographs; a run across the glyph ids 255, 256; U+FFFF alone; a space
\* mapped to glyph 0
SegmentInputs ==
    {Segment(65, 3, 1), Segment(97, 2, 2), Segment(19968, LongRun, 300),
     Segment(1024, 10, 250), Segment(65535, 1, 5), Segment(32, 1, 0)}

\* the glyph id the runs give the code point
SegmentGlyph(segs, unicode) ==
    LET seg == CHOOSE g \in segs :
                   unicode \in g.start_code..(g.start_code + g.count - 1)
    IN seg.start_glyph + (unicode - seg.start_code)

CmapOf(segs) ==
    [unicode \in UNION {g.start_code..(g.start_code + g.count - 1) : g \in segs} |->
        SegmentGlyph(segs, unicode)]

GlyphsOf(segs) ==
    {0} \cup UNION {g.start_glyph..(g.start_glyph + g.count - 1) : g \in segs}

\* the advance of a glyph: a full em, or half an em and a little
AdvanceStyles == {"em", "proportional"}
AdvanceOf(style, units_per_em, gid) ==
    IF style = "em" THEN units_per_em ELSE (units_per_em \div 2) + 10 * (gid % 7)

UnitsPerEmInputs == {1000, 2048, 201}

ParsedFont(units_per_em, segs, style) ==
    [units_per_em |-> units_per_em,
     descent |-> 0 - (units_per_em \div 5),
     cmap |-> CmapOf(segs),
     advance_width |-> [gid \in GlyphsOf(segs) |-> AdvanceOf(style, units_per_em, gid)],
     extents |-> [gid \in GlyphsOf(segs) |->
                     IF gid % 2 = 0 THEN None
                     ELSE Some([min_y |-> 0 - (units_per_em \div 5),
                                max_y |-> (7 * units_per_em) \div 10])]]

\* the fonts the parser hands to the engine
FaceInputs ==
    {ParsedFont(units_per_em, segs, style) :
        units_per_em \in UnitsPerEmInputs, segs \in SUBSET SegmentInputs,
        style \in AdvanceStyles}

\* ExternalFont::into_with_document, the tables it makes
IntoWithDocument ==
    /\ ~engine.done
    /\ engine' = font_tables(face, "Fo" \o Decimal(DictLen(objects)))
    /\ UNCHANGED <<max_id, objects, embedded, resources, regLog, panicked,
                   fonts, fontLog, pages, conformance, phase, out, idVars, textVars,
                   face>>

InitFont ==
    /\ InitDoc
    /\ resources = [d \in DictIds |-> EmptyDict]
    /\ face \in FaceInputs

NextFont == IntoWithDocument

SpecFont == InitFont /\ [][NextFont]_vars

(***************************************************************************)
(* Building a layer: fonts are added to the document, then builder calls   *)
(* are made on one layer.                                                  *)
(***************************************************************************)
\* the number of builder calls made on the layer
MaxCalls == 2

\* the setters and the arguments they are called with
SetterArgs ==
    [begin_text_section |-> {<<>>},
     end_text_section |-> {<<>>},
     set_fill_color |-> {<<1, 0, 0>>},
     set_outline_color |-> {<<0, 0, 1>>},
     set_graphics_state |-> {"GS0"},
     set_outline_thickness |-> {0, 2},
     set_line_join_style |-> {1},
     set_line_cap_style |-> {2},
     set_line_dash_pattern |-> {[dashes |-> <<3, 1>>, offset |-> 0]},
     set_text_matrix |-> {<<"Rotate", 90>>},
     set_line_height |-> {14},
     set_character_spacing |-> {3},
     set_word_spacing |-> {5},
     set_text_rendering_mode |-> {"Stroke"},
     save_graphics_state |-> {<<>>},
     restore_graphics_state |-> {<<>>}]

\* the call of a setter on the operations of the layer
apply_setter(operations, fn, arg) ==
    CASE fn = "begin_text_section" -> begin_text_section(operations)
      [] fn = "end_text_section" -> end_text_section(operations)
      [] fn = "set_fill_color" -> set_fill_color(operations, arg)
      [] fn = "set_outline_color" -> set_outline_color(operations, arg)
      [] fn = "set_graphics_state" -> set_graphics_state(operations, arg)
      [] fn = "set_outline_thickness" -> set_outline_thickness(operations, arg)
      [] fn = "set_line_join_style" -> set_line_join_style(operations, arg)
      [] fn = "set_line_cap_style" -> set_line_cap_style(operations, arg)
      [] fn = "set_line_dash_pattern" -> set_line_dash_pattern(operations, arg)
      [] fn = "set_text_matrix" -> set_text_matrix(operations, arg)
      [] fn = "set_line_height" -> set_line_height(operations, arg)
      [] fn = "set_character_spacing" -> set_character_spacing(operations, arg)
      [] fn = "set_word_spacing" -> set_word_spacing(operations, arg)
      [] fn = "set_text_rendering_mode" ->
             set_text_rendering_mode(operations, arg)
      [] fn = "save_graphics_state" -> save_graphics_state(operations)
      [] fn = "restore_graphics_state" -> restore_graphics_state(operations)

\* the arguments of use_xobject: offsets in mm, an angle, two factors, each
\* absent, zero or not zero
TranslateInputs == {<<None, None>>, <<Some(0), None>>, <<Some(10), None>>,
                    <<None, Some(5)>>, <<Some(0), Some(0)>>}
RotateInputs == {None, Some(0), Some(90)}
ScaleInputs == {<<None, None>>, <<Some(0), Some(0)>>, <<Some(2), None>>,
                <<None, Some(3)>>, <<Some(2), Some(3)>>, <<Some(0), None>>}
XObjectRefs == {"R1"}

\* the arguments of use_text
UseTextTexts == {<<>>, <<65, 8364>>}
ForeignFontRefs == {"F7"}

LayerCall(name) == [op |-> name, text |-> <<>>, font |-> ""]

\* one of the setters of PdfLayer
Setter(fn, arg) ==
    /\ ~panicked
    /\ Len(writeLog) < MaxCalls
    /\ layerOps' = apply_setter(layerOps, fn, arg)
    /\ writeLog' = Append(writeLog, LayerCall(fn))
    /\ UNCHANGED <<max_id, objects, embedded, resources, regLog, panicked,
                   fonts, fontLog, pages, conformance, phase, out, idVars, faceVars>>

\* PdfLayer::use_xobject
UseXObject(xobj, translate, rotate_cw, scale) ==
    /\ ~panicked
    /\ Len(writeLog) < MaxCalls
    /\ layerOps' = use_xobject(layerOps, xobj, translate[1], translate[2], rotate_cw,
                               scale[1], scale[2])
    /\ writeLog' = Append(writeLog, LayerCall("use_xobject"))
    /\ UNCHANGED <<max_id, objects, embedded, resources, regLog, panicked,
                   fonts, fontLog, pages, conformance, phase, out, idVars, faceVars>>

\* PdfLayer::use_text with a font reference of this document or of another one
UseText(text, font_size, x, y, font) ==
    /\ ~panicked
    /\ Len(writeLog) < MaxCalls
    /\ layerOps' = use_text(layerOps, text, font_size, x, y, fonts, font).operations
    /\ panicked' = use_text(layerOps, text, font_size, x, y, fonts, font).panic
    /\ writeLog' = Append(writeLog, [op |-> "use_text", text |-> text, font |-> font])
    /\ UNCHANGED <<max_id, objects, embedded, resources, regLog,
                   fonts, fontLog, pages, conformance, phase, out, idVars, faceVars>>

\* the fonts are added before the layer is built
LayerAddBuiltinFont(builtin_font) ==
    /\ Len(writeLog) = 0
    /\ AddBuiltinFont(builtin_font)

LayerAddExternalFont(font_stream) ==
    /\ Len(writeLog) = 0
    /\ AddExternalFont(font_stream)

NextLayer ==
    \/ \E builtin_font \in BuiltinInputs : LayerAddBuiltinFont(builtin_font)
    \/ \E font_stream \in FontStreams : LayerAddExternalFont(font_stream)
    \/ \E fn \in DOMAIN SetterArgs : \E arg \in SetterArgs[fn] : Setter(fn, arg)
    \/ \E xobj \in XObjectRefs : \E translate \in TranslateInputs :
          \E rotate_cw \in RotateInputs : \E scale \in ScaleInputs :
              UseXObject(xobj, translate, rotate_cw, scale)
    \/ \E text \in UseTextTexts : \E font \in FontRefs \cup ForeignFontRefs :
          UseText(text, 12, 10, 20, font)

SpecLayer == Init /\ [][NextLayer]_vars

(***************************************************************************)
(* The generator of identifiers, draw by draw.  The threads of the process *)
(* make documents (PdfDocument::new draws the document_id) and save them   *)
(* (save draws the instance id); one iteration of the loop of              *)
(* random_character_string_32 is one step, so the draws of two calls may   *)
(* alternate on the one counter.                                           *)
(***************************************************************************)
\* the number of calls of random_character_string_32 after PdfDocument::new
\* of the first document
MaxStrings == 4

\* RAND_SEED.fetch_add(n, Ordering::SeqCst): the value of the counter afterwards
fetch_add_lost(seed, n) == seed
fetch_add(seed, n) == seed + n

\* for ch in rand.chars(): a character is pushed while char_pos < MAX_CHARS,
\* the others are left (break 'outer)
push_chars_uncut(final_string, drawn) == final_string \o drawn
push_chars(final_string, drawn) ==
    IF Len(final_string) + Len(drawn) <= MAX_CHARS
    THEN final_string \o drawn
    ELSE SubSeq(final_string \o drawn, 1, MAX_CHARS)

\* the values the counter can hold in the model, and the characters of the
\* draw at each of them, computed once
DrawSeeds == {RAND_SEED_START + RAND_SEED_STEP * k : k \in 0..(4 * (2 + MaxStrings))}
DrawnChars == [seed \in DrawSeeds |-> random_chars(seed)]

\* let rand = format!("{}", rand()): the characters of the draw made when the
\* counter holds seed
drawn_chars(seed) == IF seed \in DrawSeeds THEN DrawnChars[seed] ELSE random_chars(seed)

\* a thread inside random_character_string_32: what the string is drawn for,
\* the characters pushed so far and the number of draws made
InCall(kind, doc, chars, draws) ==
    [active |-> TRUE, kind |-> kind, doc |-> doc, chars |-> chars, draws |-> draws]

\* the calls of random_character_string_32 begun so far
CallsBegun == Len(idLog) + Cardinality({t \in Threads : idCalls[t].active})

\* the documents whose PdfDocument::new has begun
DocumentsBegun ==
    Cardinality({i \in 1..Len(idLog) : idLog[i].kind = "document_id"})
    + Cardinality({t \in Threads : idCalls[t].active /\ idCalls[t].kind = "document_id"})

\* the documents that exist and whose save has not begun
Unsaved ==
    {idLog[i].doc : i \in {j \in 1..Len(idLog) : idLog[j].kind = "document_id"}}
    \ ({idLog[i].doc : i \in {j \in 1..Len(idLog) : idLog[j].kind = "instance_id"}}
       \cup {idCalls[t].doc : t \in {u \in Threads : idCalls[u].active
                                                    /\ idCalls[u].kind = "instance_id"}})

\* 'outer: while char_pos < MAX_CHARS: one iteration by thread t; the call
\* returns final_string when the loop condition fails
DrawStep(t, kind, doc, chars, draws) ==
    /\ RAND_SEED' = fetch_add(RAND_SEED, RAND_SEED_STEP)
    /\ IF Len(push_chars(chars, drawn_chars(RAND_SEED))) < MAX_CHARS
       THEN /\ idCalls' = [idCalls EXCEPT ![t] =
                              InCall(kind, doc, push_chars(chars, drawn_chars(RAND_SEED)),
                                     draws + 1)]
            /\ UNCHANGED idLog
       ELSE /\ idCalls' = [idCalls EXCEPT ![t] = NoCall]
            /\ idLog' = Append(idLog,
                               IdEntry(kind, doc,
                                       push_chars(chars, drawn_chars(RAND_SEED))))
    /\ UNCHANGED <<max_id, objects, embedded, resources, regLog, panicked,
                   fonts, fontLog, pages, conformance, phase, out,
                   document_id, xmp_document_id, textVars, faceVars>>

\* PdfDocument::new on thread t: document_id: random_character_string_32(),
\* up to its first draw
NewDocumentId(t) ==
    /\ ~idCalls[t].active
    /\ CallsBegun < 1 + MaxStrings
    /\ DrawStep(t, "document_id", DocumentsBegun + 1, <<>>, 0)

\* save of document doc on thread t: let instance_id =
\* random_character_string_32(), up to its first draw
SaveInstanceId(t, doc) ==
    /\ ~idCalls[t].active
    /\ CallsBegun < 1 + MaxStrings
    /\ doc \in Unsaved
    /\ DrawStep(t, "instance_id", doc, <<>>, 0)

\* the next iteration of the loop of the call thread t is in
NextDraw(t) ==
    /\ idCalls[t].active
    /\ DrawStep(t, idCalls[t].kind, idCalls[t].doc, idCalls[t].chars, idCalls[t].draws)

NextId ==
    \/ \E t \in Threads : NewDocumentId(t)
    \/ \E t \in Threads : \E doc \in 1..(1 + MaxStrings) : SaveInstanceId(t, doc)
    \/ \E t \in Threads : NextDraw(t)

SpecId == Init /\ [][NextId]_vars

\* every call that has begun goes on: a thread is not stopped inside the loop
SpecIdFair == SpecId /\ \A t \in Threads : WF_vars(NextDraw(t))

(***************************************************************************)
(* The identifiers of a document: set_document_id, the pages and the       *)
(* conformance, then save.                                                 *)
(***************************************************************************)
\* the identifiers callers hand to set_document_id
DocumentIdInputs == {"custom-id", "other-id"}

\* the two identifiers a PdfDocument holds
DocumentIds(doc_id, xmp_id) == [document_id |-> doc_id, xmp_document_id |-> xmp_id]

\* PdfDocument::set_document_id: self.metadata.xmp_metadata.document_id = id
set_document_id_field(ids, id) == [ids EXCEPT !.document_id = id]
set_document_id(ids, id) == [ids EXCEPT !.xmp_document_id = id]

SetDocumentId(id) ==
    /\ phase = "building"
    /\ document_id' = set_document_id(DocumentIds(document_id, xmp_document_id), id).document_id
    /\ xmp_document_id'
          = set_document_id(DocumentIds(document_id, xmp_document_id), id).xmp_document_id
    /\ UNCHANGED <<max_id, objects, embedded, resources, regLog, panicked,
                   fonts, fontLog, pages, conformance, phase, out,
                   RAND_SEED, idLog, idCalls, textVars, faceVars>>

NextMeta ==
    \/ \E id \in DocumentIdInputs : SetDocumentId(id)
    \/ \E page \in PageInputs : AddPage(page)
    \/ \E c \in ConformanceInputs : SetConformance(c)
    \/ \E release \in BOOLEAN : Save(release)

SpecMeta == Init /\ [][NextMeta]_vars

(***************************************************************************)
(* Claims about the registry, checked under SpecReg.                       *)
(***************************************************************************)
CategoryKeys == {"Font", "XObject"}

\* the category sub-dictionary of a page dictionary, empty when there is none
SubDict(res, key) ==
    IF DictHas(res, key) /\ res[key].type = "Dictionary" THEN res[key].v ELSE EmptyDict

\* the positions in regLog of the calls made on dictionary d for category key
CallsOn(d, key) ==
    {k \in 1..Len(regLog) :
        regLog[k].dict = d /\ KEY(regLog[k].registered.embedded.object) = key}

\* the resource names as the claims spell them
RNames == <<"R0", "R1", "R2", "R3", "R4", "R5", "R6", "R7", "R8", "R9">>

\* C1: register is idempotent: two calls register(d, e) with the same page
\* dictionary d and the same Embedded e return the same name index, and the
\* category sub-dictionary holds one entry per registered object id (the second
\* call adds no entry).
C1_RegisterIdempotent ==
    /\ \A j, k \in 1..Len(regLog) :
          (/\ regLog[j].dict = regLog[k].dict
           /\ regLog[j].registered.embedded = regLog[k].registered.embedded)
          => regLog[j].registered.name_index = regLog[k].registered.name_index
    /\ \A d \in DictIds : \A key \in CategoryKeys :
          DictLen(SubDict(resources[d], key)) =
              Cardinality({regLog[k].registered.embedded.object_id : k \in CallsOn(d, key)})

\* a page dictionary that was empty before the first register call on it
StartedEmpty(d) == \A key \in DOMAIN resources[d] : resources[d][key].type = "Dictionary"

\* C2: starting from an empty page dictionary, registering k pairwise distinct
\* Embedded values of one category returns the indices 0..k-1 in call order and
\* puts them under the keys R0..R(k-1), each mapped to the object id registered by
\* that call.
C2_DenseNames ==
    \A d \in DictIds : \A key \in CategoryKeys :
        LET calls == CallsOn(d, key)
            sub == SubDict(resources[d], key)
            \* the position of call k among the calls on (d, key), from 0
            rank(k) == Cardinality({j \in calls : j < k})
            distinct == \A j, k \in calls :
                           j # k => regLog[j].registered.embedded.object_id
                                      # regLog[k].registered.embedded.object_id
        IN (StartedEmpty(d) /\ distinct) =>
              /\ \A k \in calls : regLog[k].registered.name_index = rank(k)
              /\ DOMAIN sub = {RNames[rank(k) + 1] : k \in calls}
              /\ \A k \in calls :
                    sub[RNames[rank(k) + 1]] =
                        Reference(regLog[k].registered.embedded.object_id)

\* two distinct resources of one category have been registered into one dictionary
C2_Witness ==
    \E d \in DictIds : \E j, k \in CallsOn(d, "Font") :
        /\ j < k
        /\ regLog[j].registered.embedded.object_id # regLog[k].registered.embedded.object_id
        /\ regLog[k].registered.name_index = 1

\* C3: names are scoped per page dictionary: the index register returns is the
\* number of entries the category sub-dictionary of that dictionary held (0 for a
\* fresh empty dictionary, whatever was registered elsewhere), and a register call
\* leaves every other dictionary unchanged.
C3_PerDictionaryNames ==
    [][\A d \in DictIds : \A i \in 1..MaxEmbedded :
          (Register(d, i) /\ ~panicked') =>
             LET key == KEY(embedded[i].object)
                 ret == regLog'[Len(regLog')].registered
             IN /\ \A d2 \in DictIds \ {d} : resources'[d2] = resources[d2]
                /\ ret.name_index = DictLen(SubDict(resources[d], key))
                /\ (resources[d] = EmptyDict => ret.name_index = 0)]_vars

\* after two registrations into one dictionary, a registration into another, still
\* empty, dictionary returned index 0
C3_Witness ==
    /\ Len(regLog) = 3
    /\ regLog[1].dict = regLog[2].dict
    /\ regLog[3].dict # regLog[1].dict
    /\ regLog[2].registered.name_index = 1
    /\ regLog[3].registered.name_index = 0

\* C4: register panics (and returns no Registered value) exactly when the page
\* dictionary has an entry under the category key that is not a dictionary; when
\* the entry is absent the sub-dictionary is created with the one new entry, and
\* when it is a dictionary the new entry is inserted into it.
C4_PanicExactlyOnMalformedSlot ==
    [][\A d \in DictIds : \A i \in 1..MaxEmbedded :
          Register(d, i) =>
             LET key == KEY(embedded[i].object)
                 res == resources[d]
                 oid == embedded[i].object_id
                 sub1 == SubDict(resources'[d], key)
                 malformed == DictHas(res, key) /\ res[key].type # "Dictionary"
             IN /\ panicked' <=> malformed
                /\ malformed => (regLog' = regLog /\ resources' = resources)
                /\ ~DictHas(res, key) =>
                      /\ DictHas(resources'[d], key)
                      /\ resources'[d][key].type = "Dictionary"
                      /\ DictLen(sub1) = 1
                      /\ \A n \in DOMAIN sub1 : sub1[n] = Reference(oid)
                /\ (DictHas(res, key) /\ res[key].type = "Dictionary") =>
                      /\ \A n \in DOMAIN res[key].v : n \in DOMAIN sub1 /\ sub1[n] = res[key].v[n]
                      /\ DictLen(sub1) = DictLen(res[key].v) + 1
                      /\ \A n \in (DOMAIN sub1) \ (DOMAIN res[key].v) : sub1[n] = Reference(oid)]_vars

\* a sub-dictionary was created, another entry inserted into it, and a later call
\* hit a slot that is not a dictionary
C4_Witness ==
    /\ panicked
    /\ \E d \in DictIds : \E key \in CategoryKeys : DictLen(SubDict(resources[d], key)) >= 2


(***************************************************************************)
(* Claims about embed, checked under SpecReg.                              *)
(***************************************************************************)
\* the objects embed adds for a resource: an external font brings its ToUnicode
\* stream, its font file stream and its descriptor besides its font dictionary
EmbedAllocates(resource) == IF resource.kind = "ExternalFont" THEN 4 ELSE 1

\* the kinds whose implementation of Embeddable::embed is among the source files
CodedKinds == {"BuiltinFont", "ExternalFont"}

ObjIs(o, p) == o.type = p.type /\ o.v = p.v

\* the entry k of dictionary d is the object p
EntryIs(d, k, p) == DictHas(d, k) /\ ObjIs(d[k], p)

\* the ids of an Option<ObjectId>
OptIds(opt) == IF opt = None THEN <<>> ELSE <<opt[1]>>

RECURSIVE OcgIds(_)
OcgIds(ocg_list) ==
    IF ocg_list = <<>> THEN <<>>
    ELSE LET first == Head(ocg_list).layers
         IN [i \in 1..Len(first) |-> first[i].obj.v] \o OcgIds(Tail(ocg_list))

RECURSIVE PageRecIds(_)
PageRecIds(page_recs) ==
    IF page_recs = <<>> THEN <<>>
    ELSE LET r == Head(page_recs)
         IN OptIds(r.resources_page_id) \o <<r.page_content_id, r.page_id>>
               \o PageRecIds(Tail(page_recs))

\* the identifiers save allocated, in the order of allocation
SaveIds ==
    IF ~out.saved THEN <<>>
    ELSE <<out.pages_id>> \o OptIds(out.xmp_metadata_id) \o <<out.document_info_id>>
            \o OptIds(out.icc_profile_id)
            \o <<out.usage_ocg_dict_ref, out.intent_arr_ref>>
            \o OcgIds(out.ocg_list) \o OptIds(out.font_dict_id)
            \o PageRecIds(out.page_recs) \o <<out.catalog_id>>

\* every identifier handed out for the document: by embed, by the add-font
\* operations, by save
HandedOut ==
    [i \in 1..Len(embedded) |-> embedded[i].object_id]
       \o [i \in 1..Len(fonts) |-> fonts[i].inner_obj]
       \o SaveIds

\* C6: all object identifiers handed out for one document are pairwise distinct:
\* those of the embed handles, those the add-font operations reserved, and those
\* save allocated for the pages container, the metadata, the OCGs, the font
\* dictionary, the page resources, the page contents, the pages and the catalog.
C6_DistinctObjectIds ==
    /\ \A i, j \in 1..Len(HandedOut) : i # j => HandedOut[i] # HandedOut[j]
    /\ \A i \in 1..Len(HandedOut) : HandedOut[i] \in 1..max_id

\* a saved document with two embed handles for the same resource, a reserved font
\* and a page
C6_Witness ==
    /\ out.saved
    /\ Len(embedded) = 2 /\ embedded[1].object = embedded[2].object
    /\ Len(fonts) >= 1
    /\ Len(pages) >= 1

\* what a call that finds its logical name in the font table does: the reference
\* it returns is the existing one, nothing is allocated, the table is as before
ReturnsExisting(name) ==
    /\ fonts' = fonts
    /\ max_id' = max_id
    /\ objects' = objects
    /\ fontLog'[Len(fontLog')].ret =
          [ok |-> TRUE, name |-> FontList_get_font(fonts, name)[1].name]

\* the face name ExternalFont::new generates for the next external font
NextFaceName == ExternalFont_new("", FontList_len(fonts)).face_name

IsFontDict(o) ==
    /\ o.type = "Dictionary"
    /\ EntryIs(o.v, "Type", Name("Font"))
    /\ DictHas(o.v, "Subtype") /\ o.v["Subtype"].type = "Name"
    /\ o.v["Subtype"].v \in {"Type1", "Type0"}

\* the font dictionary object of the font table entry e
IsFontOf(o, e) ==
    /\ IsFontDict(o)
    /\ IF e.data.kind = "BuiltinFont"
       THEN EntryIs(o.v, "BaseFont", Name(BuiltinFontName[e.data.data]))
       ELSE EntryIs(o.v, "Subtype", Name("Type0"))

\* the resource dictionary of the i-th page of the saved document, through the
\* Kids of the pages container and the page's Resources entry
PageObject(i) == objects[objects[out.pages_id].v["Kids"].v[i].v].v
PageResources(i) == objects[PageObject(i)["Resources"].v].v

\* C8: save of a document with at least one font and two or more pages puts each
\* font of the font table into the object graph exactly once, under one object
\* identifier, and builds one shared font dictionary object; the Font entry of
\* every page's resource dictionary is a reference to that shared object.
C8_FontsSharedOnce ==
    (out.saved /\ Len(fonts) >= 1 /\ Len(pages) >= 2) =>
        /\ out.font_dict_id # None
        /\ LET fid == out.font_dict_id[1]
               handles == {embedded[i].object_id : i \in 1..Len(embedded)}
               fontObjs == {id \in DOMAIN objects : IsFontDict(objects[id])} \ handles
           IN /\ fid \in DOMAIN objects
              /\ objects[fid].type = "Dictionary"
              /\ DOMAIN objects[fid].v = {fonts[i].name : i \in 1..Len(fonts)}
              /\ \A i \in 1..Len(fonts) :
                    /\ ObjIs(objects[fid].v[fonts[i].name], Reference(fonts[i].inner_obj))
                    /\ fonts[i].inner_obj \in DOMAIN objects
                    /\ IsFontOf(objects[fonts[i].inner_obj], fonts[i])
              /\ fontObjs = {fonts[i].inner_obj : i \in 1..Len(fonts)}
              /\ Cardinality(fontObjs) = Len(fonts)
              /\ \A i \in 1..Len(pages) :
                    /\ DictHas(PageObject(i), "Resources")
                    /\ EntryIs(PageResources(i), "Font", Reference(fid))

\* a saved document with a builtin and an external font and two pages
C8_Witness ==
    /\ out.saved
    /\ Len(fonts) = 2
    /\ Len(pages) = 2
    /\ pages[1] # pages[2]

\* the (page, layer) pairs of the document, by page then by layer (from 1)
RECURSIVE PageLayerPairs(_)
PageLayerPairs(n) ==
    IF n = 0 THEN <<>>
    ELSE PageLayerPairs(n - 1) \o [l \in 1..Len(pages[n].layers) |-> <<n, l>>]

\* entry k of dictionary d is an array
ArrayAt(d, k) == IF DictHas(d, k) /\ d[k].type = "Array" THEN d[k].v ELSE <<Name("none")>>

\* C9: after save the catalog's OCProperties lists exactly one OCG per
\* (page, layer) pair, layers that share a display name not merged, by page order
\* then layer order, and the lists OCGs, D.Order and D.ON are identical.
C9_FlattenedOcgList ==
    out.saved =>
        LET catalog == objects[out.catalog_id].v
            props == catalog["OCProperties"].v
            OCGs == ArrayAt(props, "OCGs")
            pairs == PageLayerPairs(Len(pages))
        IN /\ DictHas(catalog, "OCProperties")
           /\ Len(OCGs) = Len(pairs)
           /\ \A k \in 1..Len(OCGs) :
                 LET p == pairs[k][1]
                     l == pairs[k][2]
                 IN /\ OCGs[k].type = "Reference"
                    /\ OCGs[k].v \in DOMAIN objects
                    /\ objects[OCGs[k].v].type = "Dictionary"
                    /\ EntryIs(objects[OCGs[k].v].v, "Type", Name("OCG"))
                    /\ EntryIs(objects[OCGs[k].v].v, "Name", Str(pages[p].layers[l].name))
                    /\ out.ocg_list[p].page_idx = p - 1
                    /\ out.ocg_list[p].layers[l].idx = l - 1
                    /\ out.ocg_list[p].layers[l].obj = OCGs[k]
           /\ \A j, k \in 1..Len(OCGs) : j # k => OCGs[j].v # OCGs[k].v
           /\ DictHas(props, "D") /\ props["D"].type = "Dictionary"
           /\ ArrayAt(props["D"].v, "Order") = OCGs
           /\ ArrayAt(props["D"].v, "ON") = OCGs

\* a saved document of two pages, one with two layers of the same name
C9_Witness ==
    /\ out.saved
    /\ Len(pages) = 2
    /\ Len(pages[1].layers) = 1
    /\ Len(pages[2].layers) = 2
    /\ pages[2].layers[1].name = pages[2].layers[2].name

\* C10: after save the Kids of the pages container hold one reference per page in
\* the order of the add_page calls, Count is the number of pages and the length
\* of Kids, and the Parent of every page object is the pages container.
C10_KidsInPageOrder ==
    out.saved =>
        LET container == objects[out.pages_id].v
            Kids == ArrayAt(container, "Kids")
        IN /\ objects[out.pages_id].type = "Dictionary"
           /\ EntryIs(container, "Type", Name("Pages"))
           /\ Len(Kids) = Len(pages)
           /\ EntryIs(container, "Count", Integer(Len(pages)))
           /\ EntryIs(container, "Count", Integer(Len(Kids)))
           /\ \A i, j \in 1..Len(Kids) : i # j => Kids[i].v # Kids[j].v
           /\ \A i \in 1..Len(Kids) :
                 /\ Kids[i].type = "Reference"
                 /\ Kids[i].v \in DOMAIN objects
                 /\ Kids[i].v = out.page_recs[i].page_id
                 /\ objects[Kids[i].v].type = "Dictionary"
                 /\ EntryIs(objects[Kids[i].v].v, "Type", Name("Page"))
                 /\ EntryIs(objects[Kids[i].v].v, "MediaBox",
                            PageDictionary(pages[i], out.pages_id)["MediaBox"])
                 /\ EntryIs(objects[Kids[i].v].v, "Parent", Reference(out.pages_id))

\* a saved document of two pages of different sizes
C10_Witness ==
    /\ out.saved
    /\ Len(pages) = 2
    /\ pages[1].width # pages[2].width

\* the per-layer streams collect_resources_and_streams returns for page p of the
\* saved document
LayerStreams(p) ==
    collect_resources_and_streams(pages[p], TheDoc, out.ocg_list[p].layers).layer_streams

\* the name of the OCG reference of the l-th layer of a page, as an operand
OcgOperand(l) == "/MC" \o Decimal(l - 1)

\* the encoded operators the layer l of page p had before save
LayerOwnContent(p, l) == Content_encode(pages[p].layers[l].operations)

\* C11 as stated: in every per-layer content stream the layer's operators are
\* wrapped by /OC /<name> BDC ... EMC, and that pair is nested inside q ... Q,
\* the marked-content pair being the inner one.
C11_MarkedContentInner ==
    out.saved =>
        \A p \in 1..Len(pages) : \A l \in 1..Len(pages[p].layers) :
            LayerStreams(p)[l].v.content =
                <<"q", "/OC", OcgOperand(l), "BDC">> \o LayerOwnContent(p, l)
                   \o <<"EMC", "Q">>

\* C11, amended: in every per-layer content stream the unchanged layer operators
\* are wrapped by q ... Q, and that pair is nested inside the marked-content pair
\* /OC /<name> BDC ... EMC, the save/restore pair being the inner one; <name> is
\* the name under which the page's Properties hold the layer's OCG reference.
C11_SaveRestoreInner ==
    out.saved =>
        \A p \in 1..Len(pages) :
            /\ Len(LayerStreams(p)) = Len(pages[p].layers)
            /\ \A l \in 1..Len(pages[p].layers) :
                  /\ LayerStreams(p)[l].v.content =
                        <<"/OC", OcgOperand(l), "BDC", "q">> \o LayerOwnContent(p, l)
                           \o <<"Q", "EMC">>
                  /\ DictHas(PageResources(p), "Properties")
                  /\ EntryIs(PageResources(p)["Properties"].v, "MC" \o Decimal(l - 1),
                             out.ocg_list[p].layers[l].obj)

\* a saved document with a page of two layers, one of them with operators
C11_Witness ==
    /\ out.saved
    /\ \E p \in 1..Len(pages) :
          /\ Len(pages[p].layers) = 2
          /\ pages[p].layers[2].operations # <<>>

\* the bytes of the streams of the layers 1..n of page p, layer after layer
RECURSIVE LayerBytes(_, _)
LayerBytes(p, n) ==
    IF n = 0 THEN <<>>
    ELSE LayerBytes(p, n - 1) \o LayerStreams(p)[n].v.content

Catalog == objects[out.catalog_id].v

\* C13: the catalog built by save has PageLayout = OneColumn, PageMode = UseOC, a
\* Pages reference to the pages container and an OCProperties entry, for every
\* document.
C13_CatalogEntries ==
    out.saved =>
        /\ objects[out.catalog_id].type = "Dictionary"
        /\ EntryIs(Catalog, "Type", Name("Catalog"))
        /\ EntryIs(Catalog, "PageLayout", Name("OneColumn"))
        /\ EntryIs(Catalog, "PageMode", Name("UseOC"))
        /\ EntryIs(Catalog, "Pages", Reference(out.pages_id))
        /\ DictHas(Catalog, "OCProperties")

\* C14: the trailer written by save has Root referencing the catalog object,
\* Info referencing the document-info object, and ID equal to the two-element
\* array [the document's document_id, an instance identifier generated during
\* this save (drawn from the generator as the save found it, which the save
\* leaves advanced)].
C14_TrailerRootInfoId ==
    [][\A release \in BOOLEAN :
          (Save(release) /\ ~panicked') =>
             /\ DOMAIN out'.trailer = {"Root", "Info", "ID"}
             /\ out'.trailer["Root"] = Reference(out'.catalog_id)
             /\ objects'[out'.catalog_id].type = "Dictionary"
             /\ EntryIs(objects'[out'.catalog_id].v, "Type", Name("Catalog"))
             /\ out'.trailer["Info"] = Reference(out'.document_info_id)
             /\ objects'[out'.document_info_id]
                    = PdfMetadata_into_obj(conformance).document_info
             /\ out'.catalog_id # out'.document_info_id
             /\ out'.trailer["ID"]
                    = Array(<<Str(document_id),
                              Str(random_character_string_32(RAND_SEED).string)>>)
             /\ RAND_SEED' = random_character_string_32(RAND_SEED).seed
             /\ RAND_SEED' > RAND_SEED
             /\ document_id' = document_id]_vars

\* a document with a page was saved and its trailer carries two identifiers
C14_Witness ==
    /\ out.saved
    /\ Len(pages) > 0
    /\ DictHas(out.trailer, "ID")
    /\ Len(out.trailer["ID"].v) = 2
    /\ out.trailer["ID"].v[1] = Str(document_id)
    /\ out.trailer["ID"].v[2] = Str(out.instance_id)

\* the result of the add-font call made by the step
LastFontCall == fontLog'[Len(fontLog')]

\* C15: add_external_font with a stream that cannot be read or bytes the parser
\* rejects returns the error at the call and leaves the document unchanged: the
\* font table is the same and no object identifier was allocated.
C15_FailedFontLeavesDocument ==
    [][\A font_stream \in FontStreams :
          (AddExternalFont(font_stream)
           /\ ~(Readable(font_stream) /\ Parseable(font_stream))) =>
             /\ LastFontCall.arg = font_stream
             /\ ~LastFontCall.ret.ok
             /\ fonts' = fonts
             /\ max_id' = max_id
             /\ objects' = objects
             /\ pages' = pages
             /\ phase' = phase
             /\ document_id' = document_id]_vars

\* a failed call was made on a document that already held a font and an object
C15_Witness ==
    /\ Len(fontLog) = 2
    /\ fontLog[1].ret.ok
    /\ fontLog[2].op = "add_external_font"
    /\ ~fontLog[2].ret.ok
    /\ Len(fonts) = 1
    /\ max_id > 0

(***************************************************************************)
(* Claims about text written into a layer, checked under SpecText.         *)
(***************************************************************************)
\* the entry of the font table behind a font reference
FontOfRef(font) == FontList_get_font(fonts, font)[1]

IsBuiltinRef(font) == font \in FontRefs /\ FontOfRef(font).data.kind = "BuiltinFont"
IsExternalRef(font) == font \in FontRefs /\ FontOfRef(font).data.kind = "ExternalFont"

\* the WinAnsi code of a char: one byte, none for a char outside the repertoire
WinAnsiCode(ch) ==
    IF ch \in 32..126 \/ ch \in 161..255 THEN <<ch>>
    ELSE IF ch \in DOMAIN WinAnsiSpecials THEN <<WinAnsiSpecials[ch]>>
    ELSE <<>>

RECURSIVE WinAnsiCodes(_)
WinAnsiCodes(text) ==
    IF text = <<>> THEN <<>> ELSE WinAnsiCode(Head(text)) \o WinAnsiCodes(Tail(text))

\* the content stream of the page of the saved document, as tokens
TextPageContent == objects[out.page_recs[1].page_content_id].v.content

\* C16: write_text with a builtin font never fails on characters outside the
\* WinAnsi repertoire: it appends exactly one Tj operator whose hexadecimal string
\* holds the single-byte WinAnsi codes of the encodable characters in input order
\* and nothing for the unencodable ones, and a later save succeeds (and writes
\* that string into the content stream of the page).
C16_BuiltinTextNeverFails ==
    /\ [][\A text \in Texts : \A font \in FontRefs :
            (WriteText(text, font) /\ IsBuiltinRef(font)) =>
               /\ ~panicked'
               /\ layerOps' = Append(layerOps,
                     Operation("Tj", <<StringHexadecimal(WinAnsiCodes(text))>>))]_vars
    /\ [](phase = "sealed" =>
            /\ ~panicked
            /\ out.saved
            /\ TextPageContent = <<"/OC", "/MC0", "BDC", "q">>
                                    \o Content_encode(layerOps) \o <<"Q", "EMC">>
            /\ Len(Content_encode(layerOps)) = 2 * Len(writeLog)
            /\ \A i \in 1..Len(writeLog) :
                  (writeLog[i].op = "write_text" /\ IsBuiltinRef(writeLog[i].font)) =>
                     /\ Content_encode(layerOps)[2 * i - 1]
                           = HexEncode(WinAnsiCodes(writeLog[i].text))
                     /\ Content_encode(layerOps)[2 * i] = "Tj")

\* an emoji and a euro sign were written with a builtin font, the emoji left no
\* byte, the euro sign the code 0x80, and the document was saved
C16_Witness ==
    /\ phase = "sealed"
    /\ out.saved
    /\ Len(writeLog) = 2
    /\ writeLog[2].op = "write_text"
    /\ IsBuiltinRef(writeLog[2].font)
    /\ writeLog[2].text = <<128512, 8364>>
    /\ layerOps[2] = Operation("Tj", <<StringHexadecimal(<<128>>)>>)
    /\ TextPageContent[7] = "<80>"

\* the hexadecimal string of the operator the step appended
LastBytes == layerOps'[Len(layerOps')].operands[1].v

WRuns(W) ==
    [k \in 1..(Len(W.v) \div 2) |->
        [start |-> W.v[2 * k - 1].v, widths |-> W.v[2 * k].v]]

\* the glyph ids a run covers: consecutive from its start id
RunGids(run) == run.start..(run.start + Len(run.widths) - 1)

\* the width the W array reports for the glyph id, if exactly one run covers it
DecodedWidths(runs, gid) ==
    {runs[k].widths[gid - runs[k].start + 1] : k \in {j \in DOMAIN runs : gid \in RunGids(runs[j])}}

\* every run is non-empty, the runs cover the glyph ids of the glyph map and no
\* others, and no glyph id is in two runs
WRunsPartition(runs, map) ==
    /\ \A k \in DOMAIN runs : runs[k].widths # <<>>
    /\ UNION {RunGids(runs[k]) : k \in DOMAIN runs} = DOMAIN map
    /\ \A j, k \in DOMAIN runs : j # k => RunGids(runs[j]) \cap RunGids(runs[k]) = {}

\* C18: once the engine has made the tables of a font, the W array decodes, for
\* every glyph id of the glyph map (glyph 0 included), to the width of the glyph
\* times 1000 divided by unitsPerEm, truncated toward zero; every run is
\* non-empty and covers consecutive glyph ids of the map from its start id on,
\* and no glyph id is in two runs.
C18_WidthsExactlyScaled ==
    engine.done =>
        /\ WRunsPartition(WRuns(engine.W), engine.cmap)
        /\ \A gid \in DOMAIN engine.cmap :
               DecodedWidths(WRuns(engine.W), gid)
                   = {Integer((engine.cmap[gid][2] * 1000) \div face.units_per_em)}

\* the lines of the ToUnicode map that open a block, and the entries of the
\* block a line opens: the N lines after "N beginbfchar"
BeginLines(lines) == {i \in DOMAIN lines : lines[i][1] = "beginbfchar"}
EntryLines(lines) == {i \in DOMAIN lines : lines[i][1] = "bfchar"}
BlockEntries(lines, i) == (i + 1)..(i + lines[i][2])

\* the block is closed after its N entries, and they are entries
BlockWellFormed(lines, i) ==
    /\ i + lines[i][2] + 1 \in DOMAIN lines
    /\ lines[i + lines[i][2] + 1] = <<"endbfchar">>
    /\ BlockEntries(lines, i) \subseteq EntryLines(lines)

\* the blocks a pair of glyph id and code point is written in
BlocksOfPair(lines, gid, unicode) ==
    {i \in BeginLines(lines) :
        \E j \in BlockEntries(lines, i) : lines[j][2] = gid /\ lines[j][3] = unicode}

\* C19: in the ToUnicode map the engine writes for a font, every pair of glyph id
\* and code point of the glyph map is in exactly one block and the entries are
\* in ascending order of the glyph id; no written block has more than 100
\* entries, none is empty, and the glyph ids of one block have the same high
\* byte.
C19_ToUnicodeBlocks ==
    engine.done =>
        /\ \A i \in BeginLines(engine.cid_to_unicode_map) :
               /\ BlockWellFormed(engine.cid_to_unicode_map, i)
               /\ engine.cid_to_unicode_map[i][2] \in 1..100
               /\ \A j, k \in BlockEntries(engine.cid_to_unicode_map, i) :
                      engine.cid_to_unicode_map[j][2] \div 256
                          = engine.cid_to_unicode_map[k][2] \div 256
        /\ \A gid \in DOMAIN engine.cmap :
               Cardinality(BlocksOfPair(engine.cid_to_unicode_map, gid,
                                        engine.cmap[gid][1])) = 1
        /\ \A j \in EntryLines(engine.cid_to_unicode_map) :
               /\ \E i \in BeginLines(engine.cid_to_unicode_map) :
                      j \in BlockEntries(engine.cid_to_unicode_map, i)
               /\ engine.cid_to_unicode_map[j][2] \in DOMAIN engine.cmap
               /\ engine.cid_to_unicode_map[j][3]
                      = engine.cmap[engine.cid_to_unicode_map[j][2]][1]
        /\ \A j, k \in EntryLines(engine.cid_to_unicode_map) :
               j < k => engine.cid_to_unicode_map[j][2] < engine.cid_to_unicode_map[k][2]

\* the engine has written a block of 100 entries that is followed by a block of
\* the same high byte, and a block that ends where the high byte changes
C19_Witness ==
    /\ engine.done
    /\ \E i, k \in BeginLines(engine.cid_to_unicode_map) :
           /\ engine.cid_to_unicode_map[i][2] = 100
           /\ k = i + 102
           /\ engine.cid_to_unicode_map[i + 1][2] \div 256
                  = engine.cid_to_unicode_map[k + 1][2] \div 256
    /\ \E i, k \in BeginLines(engine.cid_to_unicode_map) :
           /\ engine.cid_to_unicode_map[i][2] < 100
           /\ k = i + engine.cid_to_unicode_map[i][2] + 2
           /\ engine.cid_to_unicode_map[i + 1][2] \div 256
                  # engine.cid_to_unicode_map[k + 1][2] \div 256

\* C20: the engine asks the parser for every code point from 0x0000 to 0xFFFF,
\* both included: the glyph of every such code point that has a glyph other than
\* glyph 0 is in the glyph map, also if 0xFFFF is its only code point; a code
\* point with glyph 0 adds nothing, the glyph map holds glyph 0 and the glyphs of
\* those code points only.
C20_EveryCodePointQueried ==
    engine.done =>
        DOMAIN engine.cmap
            = {0} \cup {glyph_id(face, unicode) : unicode \in UNICODE_START..UNICODE_END}

\* the operations a call has pushed, and the earlier ones are in place
Pushed(before, after) == SubSeq(after, Len(before) + 1, Len(after))
KeepsEarlier(before, after) ==
    /\ Len(after) >= Len(before)
    /\ SubSeq(after, 1, Len(before)) = before

\* the positions of an operator, the transforms, their place in the fixed order
PositionsOf(operations, operator) ==
    {i \in DOMAIN operations : operations[i].operator = operator}
IsTransform(op) == op.operator = "cm"
TransformRank(op) ==
    CASE op.operands[1].v[1] = "Translate" -> 1
      [] op.operands[1].v[1] = "Rotate" -> 2
      [] op.operands[1].v[1] = "Scale" -> 3

\* q, transforms in the order translate, rotate, scale, one Do, Q
XObjectSequence(pushed) ==
    /\ Len(pushed) >= 3
    /\ PositionsOf(pushed, "q") = {1}
    /\ PositionsOf(pushed, "Q") = {Len(pushed)}
    /\ PositionsOf(pushed, "Do") = {Len(pushed) - 1}
    /\ \A i \in 2..(Len(pushed) - 2) : IsTransform(pushed[i])
    /\ \A i, j \in 2..(Len(pushed) - 2) :
           i < j => TransformRank(pushed[i]) < TransformRank(pushed[j])

\* the number of saves that are open after the first i operations
OpenSaves(operations, i) ==
    Cardinality({j \in 1..i : operations[j].operator = "q"})
    - Cardinality({j \in 1..i : operations[j].operator = "Q"})

\* C21: every use_xobject call leaves the earlier operations in place and pushes
\* one q first, one Q last, one Do right before the Q, and between q and Do only
\* the transforms it was given, in the order translate, rotate, scale; so in a
\* layer built by use_xobject calls only, saves and restores are balanced and
\* every transform is inside a save/restore pair.
C21_UseXObjectBalanced ==
    /\ [][\A xobj \in XObjectRefs : \A translate \in TranslateInputs :
             \A rotate_cw \in RotateInputs : \A scale \in ScaleInputs :
                 UseXObject(xobj, translate, rotate_cw, scale) =>
                     /\ KeepsEarlier(layerOps, layerOps')
                     /\ XObjectSequence(Pushed(layerOps, layerOps'))
                     /\ Pushed(layerOps, layerOps')[Len(Pushed(layerOps, layerOps')) - 1]
                            = Operation("Do", <<Name(xobj)>>)]_vars
    /\ []((\A i \in DOMAIN writeLog : writeLog[i].op = "use_xobject") =>
              /\ OpenSaves(layerOps, Len(layerOps)) = 0
              /\ \A i \in DOMAIN layerOps :
                     /\ OpenSaves(layerOps, i) >= 0
                     /\ IsTransform(layerOps[i]) => OpenSaves(layerOps, i) = 1)

\* two use_xobject calls have been made, the second with a translation, a
\* rotation and a scale
C21_Witness ==
    /\ Len(writeLog) = 2
    /\ \A i \in DOMAIN writeLog : writeLog[i].op = "use_xobject"
    /\ Len(layerOps) >= 9
    /\ [i \in 1..6 |-> layerOps[Len(layerOps) - 6 + i].operator]
           = <<"q", "cm", "cm", "cm", "Do", "Q">>

\* the transforms of a kind among the pushed operations
TransformsOf(pushed, kind) ==
    {pushed[i].operands[1].v : i \in {j \in DOMAIN pushed :
        IsTransform(pushed[j]) /\ pushed[j].operands[1].v[1] = kind}}

\* an optional argument that is absent or zero, and its value with 0 for absent
AbsentOrZero(option) == option = None \/ option = Some(0)
GivenOrZero(option) == IF option = None THEN 0 ELSE option[1]

\* C29: in every use_xobject call an absent scale factor counts as 0: a scale is
\* pushed unless both factors are absent or 0, and it carries 0 for the factor
\* that is absent; a translation is pushed unless both offsets are absent or 0;
\* a rotation is pushed exactly if rotate_cw is given, also if it is 0.
C29_AbsentScaleIsZero ==
    [][\A xobj \in XObjectRefs : \A translate \in TranslateInputs :
          \A rotate_cw \in RotateInputs : \A scale \in ScaleInputs :
              UseXObject(xobj, translate, rotate_cw, scale) =>
                  /\ TransformsOf(Pushed(layerOps, layerOps'), "Scale")
                         = IF AbsentOrZero(scale[1]) /\ AbsentOrZero(scale[2]) THEN {}
                           ELSE {<<"Scale", GivenOrZero(scale[1]), GivenOrZero(scale[2])>>}
                  /\ TransformsOf(Pushed(layerOps, layerOps'), "Translate")
                         = IF AbsentOrZero(translate[1]) /\ AbsentOrZero(translate[2])
                           THEN {}
                           ELSE {<<"Translate", 360 * GivenOrZero(translate[1]),
                                   360 * GivenOrZero(translate[2])>>}
                  /\ TransformsOf(Pushed(layerOps, layerOps'), "Rotate")
                         = IF rotate_cw = None THEN {} ELSE {<<"Rotate", rotate_cw[1]>>}
                  /\ Len(Pushed(layerOps, layerOps'))
                         = 3 + Cardinality(TransformsOf(Pushed(layerOps, layerOps'), "Scale"))
                             + Cardinality(TransformsOf(Pushed(layerOps, layerOps'),
                                                        "Translate"))
                             + Cardinality(TransformsOf(Pushed(layerOps, layerOps'),
                                                        "Rotate"))]_vars

\* a use_xobject call with scale_x = 2 and no scale_y, and with rotate_cw = 0,
\* has pushed the scale (2, 0) and the rotation by 0
C29_Witness ==
    /\ Len(writeLog) = 1
    /\ writeLog[1].op = "use_xobject"
    /\ TransformsOf(layerOps, "Scale") = {<<"Scale", 2, 0>>}
    /\ TransformsOf(layerOps, "Rotate") = {<<"Rotate", 0>>}
    /\ TransformsOf(layerOps, "Translate") = {}

\* the operator Tj with the text encoded for the font: the Windows-1252 codes for
\* a builtin font, the glyph ids of the chars for an external font
GlyphEncodedTj(text, font) ==
    IF IsExternalRef(font)
    THEN write_codepoints(<<>>,
             [i \in 1..Len(text) |->
                 glyph_id(FontCollection_font(FontOfRef(font).data.data), text[i])])[1]
    ELSE Operation("Tj", <<StringHexadecimal(WinAnsiCodes(text))>>)

SetterOperator ==
    [begin_text_section |-> "BT", end_text_section |-> "ET", set_fill_color |-> "rg",
     set_outline_color |-> "RG", set_graphics_state |-> "gs",
     set_outline_thickness |-> "w", set_line_join_style |-> "j",
     set_line_cap_style |-> "J", set_line_dash_pattern |-> "d", set_text_matrix |-> "Tm",
     set_line_height |-> "TL", set_character_spacing |-> "Tc", set_word_spacing |-> "Tw",
     set_text_rendering_mode |-> "Tr", save_graphics_state |-> "q",
     restore_graphics_state |-> "Q"]

\* the setters that open or close a text section or a graphics state
Brackets == {"begin_text_section", "end_text_section", "save_graphics_state",
             "restore_graphics_state"}

\* C23: the operations of a layer only grow: every builder call leaves the
\* earlier operations unchanged and in place, and every setter call makes the
\* list longer by exactly one operation, the one of the setter; no call is
\* rejected, so a layer built by setter calls alone holds one operation per
\* call in call order, whether or not BT/ET and q/Q are balanced.
C23_OperationsAppendOnly ==
    /\ [][KeepsEarlier(layerOps, layerOps')]_vars
    /\ [][\A fn \in DOMAIN SetterArgs : \A arg \in SetterArgs[fn] :
             Setter(fn, arg) =>
                 /\ ~panicked'
                 /\ Len(layerOps') = Len(layerOps) + 1
                 /\ layerOps'[Len(layerOps')].operator = SetterOperator[fn]
                 /\ fn \in Brackets =>
                        layerOps'[Len(layerOps')] = Operation(SetterOperator[fn], <<>>)]_vars
    /\ []((\A i \in DOMAIN writeLog : writeLog[i].op \in DOMAIN SetterArgs) =>
              /\ ~panicked
              /\ Len(layerOps) = Len(writeLog)
              /\ \A i \in DOMAIN writeLog :
                     layerOps[i].operator = SetterOperator[writeLog[i].op])

\* end_text_section and then restore_graphics_state were called on an empty
\* layer: both are recorded although nothing was opened
C23_Witness ==
    /\ Len(writeLog) = 2
    /\ writeLog[1].op = "end_text_section"
    /\ writeLog[2].op = "restore_graphics_state"
    /\ layerOps = <<Operation("ET", <<>>), Operation("Q", <<>>)>>
(***************************************************************************)
(* Claims about the identifiers, checked under SpecId and SpecIdFair.      *)
(***************************************************************************)
\* the entries of idLog of one kind
EntriesOf(kind) == {i \in 1..Len(idLog) : idLog[i].kind = kind}

\* C24: identifiers are distinct within one process: any two calls of
\* random_character_string_32 return different strings, so two documents never
\* have the same document_id and the instance id drawn by save differs from the
\* document_id of the document saved (and of every other document).
C24_IdentifiersDistinct ==
    /\ \A i, j \in 1..Len(idLog) : i # j => idLog[i].string # idLog[j].string
    /\ \A i, j \in EntriesOf("document_id") :
          idLog[i].doc # idLog[j].doc => idLog[i].string # idLog[j].string
    /\ \A i \in EntriesOf("instance_id") : \A j \in EntriesOf("document_id") :
          idLog[i].doc = idLog[j].doc => idLog[i].string # idLog[j].string

\* two documents exist, both are saved, and the draws of two calls alternated
C24_Witness ==
    /\ Cardinality(EntriesOf("document_id")) >= 2
    /\ Cardinality(EntriesOf("instance_id")) >= 2
    /\ \E i \in 1..Len(idLog) :
          idLog[i].string \notin
             {random_character_string_32(RAND_SEED_START + RAND_SEED_STEP * k).string :
                 k \in 0..(3 * (1 + MaxStrings))}

\* the characters u8_to_char makes of the decimal digits
Letters == {"A", "B", "C", "D", "E", "F", "G", "H", "I", "J"}

\* C25: every call of random_character_string_32 returns after finitely many
\* draws (every draw pushes at least one character, so at most 32 draws are
\* made, and a call that has begun returns), the string returned has exactly 32
\* characters, each of 'A'..'J', and every draw advances the process-wide
\* counter by exactly 21.
C25_ThirtyTwoLetters ==
    /\ [](\A i \in 1..Len(idLog) :
             /\ Len(idLog[i].chars) = MAX_CHARS
             /\ \A k \in 1..Len(idLog[i].chars) : idLog[i].chars[k] \in Letters
             /\ idLog[i].string = StringOf(idLog[i].chars))
    /\ [](\A t \in Threads :
             idCalls[t].active =>
                /\ idCalls[t].draws >= 1
                /\ idCalls[t].draws <= Len(idCalls[t].chars)
                /\ Len(idCalls[t].chars) < MAX_CHARS)
    /\ [][RAND_SEED' = RAND_SEED + 21]_vars
    /\ \A t \in Threads : (idCalls[t].active ~> ~idCalls[t].active)

\* a call has returned after its third draw while another call is in its loop
C25_Witness ==
    /\ Len(idLog) >= 2
    /\ RAND_SEED = RAND_SEED_START + 8 * RAND_SEED_STEP
    /\ \E t \in Threads : idCalls[t].active /\ idCalls[t].draws = 2

Resolves(k) ==
    LET r == regLog[k].registered
        sub == SubDict(resources[regLog[k].dict], KEY(r.embedded.object))
    IN /\ r.name_index + 1 \in DOMAIN RNames
       /\ DictHas(sub, RNames[r.name_index + 1])
       /\ sub[RNames[r.name_index + 1]] = Reference(r.embedded.object_id)

\* C27: after any sequence of register calls on a page resource dictionary
\* that started empty, every Registered value returned so far still resolves:
\* the category sub-dictionary maps "R" + name_index to the object id of the
\* resource.  No register call overwrites or renames an entry made earlier.
C27_RegisteredStillResolves ==
    /\ [](\A k \in 1..Len(regLog) : StartedEmpty(regLog[k].dict) => Resolves(k))
    /\ [][\A d \in DictIds : \A key \in CategoryKeys :
             StartedEmpty(d) =>
                \A n \in DOMAIN SubDict(resources[d], key) :
                   /\ DictHas(SubDict(resources'[d], key), n)
                   /\ SubDict(resources'[d], key)[n] = SubDict(resources[d], key)[n]]_vars

\* three resources were registered into one dictionary that started empty, two
\* of them of one category with different object ids, and the first still resolves
C27_Witness ==
    \E d \in DictIds :
        /\ StartedEmpty(d)
        /\ Cardinality({k \in 1..Len(regLog) : regLog[k].dict = d}) = 3
        /\ \E key \in CategoryKeys : \E j, k \in CallsOn(d, key) :
              /\ j < k
              /\ regLog[j].registered.embedded.object_id
                    # regLog[k].registered.embedded.object_id
              /\ Resolves(j)

(***************************************************************************)
(* Claims about the lookups of save, checked under Spec.                   *)
(***************************************************************************)
\* the entries of the OCG list save made for the page with index idx
OcgEntriesOf(ocg_list, idx) == {k \in 1..Len(ocg_list) : ocg_list[k].page_idx = idx}

\* C28: save never fails on its internal lookups, for a document without
\* pages, with pages without layers and with layers of the same name: the OCG
\* list has an entry for every page (find(..).unwrap()), the entry supplies as
\* many OCG references as the page has layers, so the OCG name looked up by
\* layer index (ocg_refs[idx]) is in bounds and every layer gets its stream.
C28_SaveLookupsNeverFail ==
    [][\A release \in BOOLEAN :
          Save(release) =>
             /\ ~panicked'
             /\ out'.saved
             /\ Len(out'.page_recs) = Len(pages)
             /\ \A i \in 1..Len(pages) :
                   /\ Cardinality(OcgEntriesOf(out'.ocg_list, i - 1)) = 1
                   /\ \A k \in OcgEntriesOf(out'.ocg_list, i - 1) :
                         /\ Len(out'.ocg_list[k].layers) = Len(pages[i].layers)
                         /\ Len(PdfResources_into_with_layers(
                                   pages[i].resources,
                                   [l \in 1..Len(out'.ocg_list[k].layers) |->
                                       out'.ocg_list[k].layers[l].obj]).ocg_references)
                               = Len(pages[i].layers)]_vars

\* a document of a page without layers and a page with two layers of one name
\* was saved
C28_Witness ==
    /\ out.saved
    /\ ~panicked
    /\ Len(pages) = 2
    /\ \E i, j \in 1..Len(pages) :
          /\ pages[i].layers = <<>>
          /\ Len(pages[j].layers) = 2
          /\ pages[j].layers[1].name = pages[j].layers[2].name

(***************************************************************************)
(* Claims about the fonts a layer writes with, checked under SpecLayer.    *)
(***************************************************************************)
\* the font references add_builtin_font and add_external_font have returned
ReturnedRefs == {fontLog[i].ret.name : i \in {j \in 1..Len(fontLog) : fontLog[j].ret.ok}}

====
